---------------------------- MODULE Spec2Model ----------------------------
(***************************************************************************)
(* Model of the text-classification and extraction core of the recruit     *)
(* ETL: the date normalizer (standardizeDates) and the hierarchical major  *)
(* matcher (parseMajors / findRelatedMajor / handleMajors).                *)
(*                                                                         *)
(* A JavaScript string is modelled as the sequence of its UTF-16 code      *)
(* units.  ASCII characters stand for themselves ("2", ".", "~", " ");     *)
(* a Hangul syllable is written as its romanised jamo ("ha_g" is U+D559). *)
(* The romanisation is one-to-one on the characters that occur, so string  *)
(* equality, includes, startsWith, split and edit distance are those of    *)
(* the program.                                                            *)
(***************************************************************************)
EXTENDS Integers, Sequences, FiniteSets, TLC

VARIABLES
    pc,               \* position of the standardizeDates call: "idle", "pass1", "pass2", "match"
    input,            \* the mapping the current call was given (values in insertion order)
    parsedObject,     \* the mapping being rewritten in place
    lastKnownYear,    \* `let lastKnownYear`
    k,                \* index of the field the pass-2 loop is at
    matches,          \* matches of the current value still to be handled by forEach
    transformedValue, \* `let transformedValue`
    match,            \* the match handled last
    transformedDate,  \* what the match handled last was rewritten to
    calls,            \* number of calls that have returned
    returned,         \* the mapping returned by the last call
    reapplied,        \* TRUE when the current call was given the previous call's result
    firstOutput,      \* the previous call's result, while reapplied
    leftYear,         \* what lastKnownYear held when the current call started
    mpc,              \* position of the matcher call: "idle", "parsed", "loop", "fallback", "done"
    selection,        \* the text handleMajors was given
    inputs,           \* the token list findRelatedMajor was given
    flatInputs,       \* `const flatInputs`: the atomic inputs
    idx,              \* index of the atomic input the loop is at
    relatedData,      \* `const relatedData`: a Set, kept in insertion order
    foundExactMatch,  \* `let foundExactMatch`
    result,           \* the array the call returned
    tables,           \* `colleges`, `relatedColleges`, `special`: the objects of the module
    fpc,              \* position of the field-parser call: "idle", "done"
    called,           \* the field parser that was called
    argument,         \* the string it was given
    outcome,          \* what the call did: the value returned or the error thrown
    tpc,              \* position of the transformData call: "idle", "loop", "returned", "raised"
    posting,          \* Object.entries(data): the fields of the posting, in order
    pos,              \* index of the entry the loop is at
    transformedData,  \* `const transformedData`: key -> value
    thrown,           \* the error transformData let escape
    dpc,              \* position of the saveToDynamoDB call: "idle", "loop", "resolved", "rejected"
    batch,            \* the id of each item of `data`, in order
    at,               \* index of the item the loop is at
    putItems,         \* the ids of the items sent with PutItemCommand, in order
    dynamoError,      \* the error saveToDynamoDB rejected with
    hpc,              \* position of the handler: "idle", "get", "transform", "s3", "dynamo", "es", "resolved", "rejected"
    event,            \* event.Records: the crawled file of each record, in order
    recordAt,         \* index of the record the loop is at
    itemAt,           \* index of the item saveToDynamoDB or saveToElasticsearch is at
    processedData,    \* `const transformedData` of the handler: the records of the file
    effects,          \* the writes that were made to S3, DynamoDB and Elasticsearch, in order
    failure           \* the call whose error the handler threw again

dateVars == <<pc, input, parsedObject, lastKnownYear, k, matches,
              transformedValue, match, transformedDate, calls, returned,
              reapplied, firstOutput, leftYear>>

majorVars == <<mpc, selection, inputs, flatInputs, idx, relatedData,
               foundExactMatch, result, tables>>

fieldVars == <<fpc, called, argument, outcome>>

postingVars == <<tpc, posting, pos, transformedData, thrown>>

dynamoVars == <<dpc, batch, at, putItems, dynamoError>>

handlerVars == <<hpc, event, recordAt, itemAt, processedData, effects, failure>>

\* what the date normalizer and the matcher leave alone
otherVars == <<fieldVars, postingVars, dynamoVars, handlerVars>>

vars == <<dateVars, majorVars, otherVars>>

-----------------------------------------------------------------------------
(* Bounds of the model *)

\* A mapping is drawn from the token sequences of at most this length.
MaxTokens == 4

\* Number of standardizeDates calls made one after the other.
MaxCalls == 2

-----------------------------------------------------------------------------
(* Strings *)

Digits == {"0", "1", "2", "3", "4", "5", "6", "7", "8", "9"}

\* \s of a JavaScript regular expression, on the characters of the model
WhiteSpace == {" ", "\t", "\n"}

IsDigit(c) == c \in Digits

IsSpace(c) == c \in WhiteSpace

Min(a, b) == IF a <= b THEN a ELSE b

\* s.slice(i-1, j-1): the characters i .. j-1 (1-based)
Slice(s, i, j) == SubSeq(s, i, j - 1)

\* the concatenation of the sequences of ss, in order (by halves, which keeps
\* the evaluation shallow)
RECURSIVE Flatten(_)
Flatten(ss) ==
    IF ss = << >> THEN << >>
    ELSE IF Len(ss) = 1 THEN ss[1]
    ELSE LET h == Len(ss) \div 2
         IN  Flatten(SubSeq(ss, 1, h)) \o Flatten(SubSeq(ss, h + 1, Len(ss)))

\* does pat occur in s at position i
OccursAt(s, pat, i) ==
    /\ i >= 1
    /\ i + Len(pat) - 1 <= Len(s)
    /\ \A j \in 1..Len(pat) : s[i + j - 1] = pat[j]

\* s.indexOf(pat) + 1, or 0 when pat does not occur
IndexOf(s, pat) ==
    LET hits == {i \in 1..(Len(s) - Len(pat) + 1) : OccursAt(s, pat, i)}
    IN  IF hits = {} THEN 0 ELSE CHOOSE i \in hits : \A j \in hits : i <= j

\* s.includes(pat)
Includes(s, pat) == pat = << >> \/ IndexOf(s, pat) # 0

\* s.startsWith(pat)
StartsWith(s, pat) == OccursAt(s, pat, 1)

\* s.replace(pat, rep) with a string pattern: the FIRST occurrence only
ReplaceFirst(s, pat, rep) ==
    LET i == IndexOf(s, pat)
    IN  IF i = 0 THEN s
        ELSE Slice(s, 1, i) \o rep \o Slice(s, i + Len(pat), Len(s) + 1)

\* index of the first character at or after i that is not white space
RECURSIVE SkipSpaces(_, _)
SkipSpaces(s, i) ==
    IF i <= Len(s) /\ IsSpace(s[i]) THEN SkipSpaces(s, i + 1) ELSE i

\* index of the last character at or before i that is not white space
RECURSIVE SkipSpacesBack(_, _)
SkipSpacesBack(s, i) ==
    IF i >= 1 /\ IsSpace(s[i]) THEN SkipSpacesBack(s, i - 1) ELSE i

\* s.trim()
Trim(s) ==
    LET a == SkipSpaces(s, 1)
        b == SkipSpacesBack(s, Len(s))
    IN  IF a > b THEN << >> ELSE SubSeq(s, a, b)

\* number of digits in a row from position i
RECURSIVE DigitRun(_, _)
DigitRun(s, i) ==
    IF i <= Len(s) /\ IsDigit(s[i]) THEN 1 + DigitRun(s, i + 1) ELSE 0

\* s.split(sep) for a one-character separator
RECURSIVE SplitOn(_, _)
SplitOn(s, sep) ==
    LET i == IndexOf(s, <<sep>>)
    IN  IF i = 0 THEN <<s>>
        ELSE <<Slice(s, 1, i)>> \o SplitOn(Slice(s, i + 1, Len(s) + 1), sep)

-----------------------------------------------------------------------------
(* The regular expressions of standardizeDates *)

\* /\s*\.\s*/ tried at position i: the position after the match, 0 when it fails
MatchDotSep(s, i) ==
    LET j == SkipSpaces(s, i)
    IN  IF j <= Len(s) /\ s[j] = "." THEN SkipSpaces(s, j + 1) ELSE 0

\* \d{2} followed by /\s*\.\s*/ at position i: the position after, 0 on failure
TwoDigitsThenSep(s, i) ==
    IF DigitRun(s, i) = 2 THEN MatchDotSep(s, i + 2) ELSE 0

\* \d{2} at position i: the position after, 0 on failure
TwoDigits(s, i) ==
    IF i >= 1 /\ DigitRun(s, i) >= 2 THEN i + 2 ELSE 0

\* /\d{2,4}\s*\.\s*\d{2}\s*\.\s*\d{2}/ at position i: the position after, 0 on failure.
\* The year is followed by white space or a dot, so it is the whole digit run.
FullDateAt(s, i) ==
    LET n == DigitRun(s, i)
        a == IF n >= 2 /\ n <= 4 THEN MatchDotSep(s, i + n) ELSE 0
        b == IF a = 0 THEN 0 ELSE TwoDigitsThenSep(s, a)
    IN  IF b = 0 THEN 0 ELSE TwoDigits(s, b)

\* /\d{2}\s*\.\s*\d{2}/ at position i
PartialDateAt(s, i) ==
    LET a == TwoDigitsThenSep(s, i)
    IN  IF a = 0 THEN 0 ELSE TwoDigits(s, a)

\* an optional "~" in front of pattern P (given by its matcher's results)
OptTilde(s, i, withTilde, without) ==
    IF i <= Len(s) /\ s[i] = "~" THEN withTilde ELSE without

\* dateLikePattern at position i: the first alternative, then the second
DateLikeAt(s, i) ==
    LET alt1 == OptTilde(s, i, FullDateAt(s, i + 1), FullDateAt(s, i))
        alt2 == OptTilde(s, i, PartialDateAt(s, i + 1), PartialDateAt(s, i))
    IN  IF alt1 # 0 THEN alt1 ELSE alt2

\* the matches of dateLikePattern with the g flag, as <<first, after>> pairs,
\* left to right, each search resuming after the previous match
RECURSIVE DateLikeSpansFrom(_, _)
DateLikeSpansFrom(s, i) ==
    IF i > Len(s) THEN << >>
    ELSE LET e == DateLikeAt(s, i)
         IN  IF e = 0 THEN DateLikeSpansFrom(s, i + 1)
             ELSE <<<<i, e>>>> \o DateLikeSpansFrom(s, e)

DateLikeSpans(s) == DateLikeSpansFrom(s, 1)

\* value.match(dateLikePattern): the matched substrings (<< >> stands for null)
DateLikeMatches(s) ==
    LET spans == DateLikeSpans(s)
    IN  [i \in 1..Len(spans) |-> Slice(s, spans[i][1], spans[i][2])]

\* fullDatePattern.test(s): anchored at both ends
fullDatePattern(s) == FullDateAt(s, 1) = Len(s) + 1

\* partialDatePattern.test(s)
partialDatePattern(s) == PartialDateAt(s, 1) = Len(s) + 1

\* tildeDatePattern.test(s)
tildeDatePattern(s) ==
    Len(s) >= 1 /\ s[1] = "~" /\ FullDateAt(s, 2) = Len(s) + 1

\* s.replace(/\s*\.\s*/g, ".")
RECURSIVE CollapseDotsFrom(_, _)
CollapseDotsFrom(s, i) ==
    IF i > Len(s) THEN << >>
    ELSE LET e == MatchDotSep(s, i)
         IN  IF e = 0 THEN <<s[i]>> \o CollapseDotsFrom(s, i + 1)
             ELSE <<".">> \o CollapseDotsFrom(s, e)

\* s.replace(/\s*\.\s*/g, ".").trim()
NormalizeDots(s) == Trim(CollapseDotsFrom(s, 1))

-----------------------------------------------------------------------------
(* standardizeDates *)

\* `null`, the value lastKnownYear is declared with; it is falsy, like ""
NoYear == << >>

\* YearAtCallStart with the year kept in a module-level variable that a call
\* does not reset
YearAtCallStartKept(left) == left

\* the value of lastKnownYear when a call starts: `let lastKnownYear = null`
\* declares a fresh local, whatever an earlier call left behind
YearAtCallStart(left) == NoYear

\* components[0].length === 2 ? `20${components[0]}` : components[0]
ExpandYear(y) == IF Len(y) = 2 THEN <<"2", "0">> \o y ELSE y

\* `${year}-${components[1]}-${components[2]}`
DashDate(year, month, day) == year \o <<"-">> \o month \o <<"-">> \o day

\* the body of the forEach callback up to the replace: the date the match is
\* rewritten to and the value lastKnownYear has afterwards
RewriteMatch(m, year) ==
    LET normalizedMatch == NormalizeDots(m)
    IN  IF tildeDatePattern(normalizedMatch)
        THEN LET components == SplitOn(Tail(normalizedMatch), ".")
                 y == ExpandYear(components[1])
             IN  [date |-> <<"~">> \o DashDate(y, components[2], components[3]),
                  year |-> y]
        ELSE IF fullDatePattern(normalizedMatch)
        THEN LET components == SplitOn(normalizedMatch, ".")
                 y == ExpandYear(components[1])
             IN  [date |-> DashDate(y, components[2], components[3]),
                  year |-> y]
        ELSE IF partialDatePattern(normalizedMatch) /\ year # NoYear
        THEN LET components == SplitOn(normalizedMatch, ".")
             IN  [date |-> DashDate(year, components[1], components[2]),
                  year |-> year]
        ELSE [date |-> normalizedMatch, year |-> year]

\* transformedValue = transformedValue.replace(match, transformedDate)
ReplaceMatch(value, m, date) == ReplaceFirst(value, m, date)

\* the first loop: every value has the white space around its dots removed
\* and is trimmed (all values of the mapping are strings)
NormalizeAll(obj) == [i \in 1..Len(obj) |-> NormalizeDots(obj[i])]

\* matches.forEach(...) on one value: the rewritten value and the year known
\* afterwards
RECURSIVE RewriteValue(_, _, _)
RewriteValue(ms, value, year) ==
    IF ms = << >> THEN [value |-> value, year |-> year]
    ELSE LET r == RewriteMatch(Head(ms), year)
         IN  RewriteValue(Tail(ms), ReplaceMatch(value, Head(ms), r.date), r.year)

\* the second loop from field i on, with the year known so far
RECURSIVE RewriteFields(_, _, _)
RewriteFields(obj, i, year) ==
    IF i > Len(obj) THEN obj
    ELSE LET r == RewriteValue(DateLikeMatches(obj[i]), obj[i], year)
         IN  RewriteFields([obj EXCEPT ![i] = r.value], i + 1, r.year)

\* standardizeDates(obj) as a function of its argument alone
standardizeDates(obj) == RewriteFields(NormalizeAll(obj), 1, NoYear)

-----------------------------------------------------------------------------
(* The mappings standardizeDates is called with *)

PartialTok == <<"0", "1", ".", "0", "2">>

Full4Tok == <<"2", "0", "2", "3", ".", "0", "3", ".", "0", "4">>

Full2Tok == <<"2", "3", ".", "0", "3", ".", "0", "4">>

Full3Tok == <<"1", "2", "3", ".", "0", "3", ".", "0", "4">>

DateTokens == {PartialTok, Full4Tok, Full2Tok, Full3Tok, <<"~">>, <<" ">>, <<".">>}

\* not a piece of text: the end of one field's value and the start of the next
FieldBreak == <<"|">>

TokenSeqs == UNION {[1..n -> DateTokens \cup {FieldBreak}] : n \in 1..MaxTokens}

\* the values of the fields a token sequence spells, in insertion order
RECURSIVE FieldsOf(_, _)
FieldsOf(ts, cur) ==
    IF ts = << >> THEN <<cur>>
    ELSE IF Head(ts) = FieldBreak THEN <<cur>> \o FieldsOf(Tail(ts), << >>)
    ELSE FieldsOf(Tail(ts), cur \o Head(ts))

\* The mappings of a first call.  A mapping is the sequence of its values in
\* insertion order, the order `for (const key in parsedObject)` visits the
\* (non-numeric) keys in.
Mappings == {FieldsOf(ts, << >>) : ts \in TokenSeqs}

\* The mappings of a later, unrelated call
FollowUpMappings == {<<t>> : t \in DateTokens}

-----------------------------------------------------------------------------
(* The steps of a standardizeDates call *)

StartCall(m, re) ==
    /\ pc = "idle"
    /\ calls < MaxCalls
    /\ pc' = "pass1"
    /\ input' = m
    /\ parsedObject' = m
    /\ lastKnownYear' = YearAtCallStart(lastKnownYear)
    /\ k' = 1
    /\ matches' = << >>
    /\ transformedValue' = << >>
    /\ match' = << >>
    /\ transformedDate' = << >>
    /\ reapplied' = re
    /\ firstOutput' = IF re THEN returned ELSE << >>
    /\ returned' = << >>
    /\ leftYear' = lastKnownYear
    /\ UNCHANGED <<calls, majorVars, otherVars>>

\* the first call of a process
Call == /\ pc = "idle"
        /\ calls = 0
        /\ \E m \in Mappings : StartCall(m, FALSE)

\* a later call on an unrelated mapping
CallAgain == /\ pc = "idle"
             /\ calls > 0
             /\ \E m \in FollowUpMappings : StartCall(m, FALSE)

\* a later call on the mapping the previous call returned
Reapply == /\ pc = "idle"
           /\ calls > 0
           /\ StartCall(returned, TRUE)

\* lines 53-58
Pass1 ==
    /\ UNCHANGED <<majorVars, otherVars>>
    /\ pc = "pass1"
    /\ parsedObject' = NormalizeAll(parsedObject)
    /\ pc' = "pass2"
    /\ k' = 1
    /\ UNCHANGED <<input, lastKnownYear, matches, transformedValue, match,
                   transformedDate, calls, returned, reapplied, firstOutput, leftYear>>

\* lines 60-65: a value without a date-like substring is skipped
SkipField ==
    /\ UNCHANGED <<majorVars, otherVars>>
    /\ pc = "pass2"
    /\ k <= Len(parsedObject)
    /\ DateLikeMatches(parsedObject[k]) = << >>
    /\ k' = k + 1
    /\ UNCHANGED <<pc, input, parsedObject, lastKnownYear, matches,
                   transformedValue, match, transformedDate, calls, returned,
                   reapplied, firstOutput, leftYear>>

\* BeginField with lastKnownYear declared inside the loop over the fields
BeginFieldFreshYear ==
    /\ UNCHANGED <<majorVars, otherVars>>
    /\ pc = "pass2"
    /\ k <= Len(parsedObject)
    /\ DateLikeMatches(parsedObject[k]) # << >>
    /\ matches' = DateLikeMatches(parsedObject[k])
    /\ transformedValue' = parsedObject[k]
    /\ pc' = "match"
    /\ lastKnownYear' = NoYear
    /\ UNCHANGED <<input, parsedObject, k, match, transformedDate, calls,
                   returned, reapplied, firstOutput, leftYear>>

\* lines 60-67: the matches of the value are collected
BeginField ==
    /\ UNCHANGED <<majorVars, otherVars>>
    /\ pc = "pass2"
    /\ k <= Len(parsedObject)
    /\ DateLikeMatches(parsedObject[k]) # << >>
    /\ matches' = DateLikeMatches(parsedObject[k])
    /\ transformedValue' = parsedObject[k]
    /\ pc' = "match"
    /\ UNCHANGED <<input, parsedObject, lastKnownYear, k, match,
                   transformedDate, calls, returned, reapplied, firstOutput, leftYear>>

\* lines 68-92: one round of forEach and, after the last one, the store
HandleMatch ==
    /\ UNCHANGED <<majorVars, otherVars>>
    /\ pc = "match"
    /\ matches # << >>
    /\ LET r == RewriteMatch(Head(matches), lastKnownYear)
           tv == ReplaceMatch(transformedValue, Head(matches), r.date)
       IN  /\ match' = Head(matches)
           /\ transformedDate' = r.date
           /\ lastKnownYear' = r.year
           /\ transformedValue' = tv
           /\ matches' = Tail(matches)
           /\ IF Tail(matches) = << >>
              THEN /\ parsedObject' = [parsedObject EXCEPT ![k] = tv]
                   /\ k' = k + 1
                   /\ pc' = "pass2"
              ELSE UNCHANGED <<parsedObject, k, pc>>
    /\ UNCHANGED <<input, calls, returned, reapplied, firstOutput, leftYear>>

\* line 95
Return ==
    /\ UNCHANGED <<majorVars, otherVars>>
    /\ pc = "pass2"
    /\ k > Len(parsedObject)
    /\ pc' = "idle"
    /\ returned' = parsedObject
    /\ calls' = calls + 1
    /\ UNCHANGED <<input, parsedObject, lastKnownYear, k, matches,
                   transformedValue, match, transformedDate, reapplied,
                   firstOutput, leftYear>>

-----------------------------------------------------------------------------
(* The taxonomy *)

\* `colleges`: the colleges in declaration order, each with its majors in order
\* (Object.entries / Object.values follow the declaration order of the keys)
colleges == <<
    [name |-> <<"go_ng", "gwa", "dae", "ha_g">>,
     majors |-> <<<<"ba_n", "do", "che", "go_ng", "ha_g", "gwa">>,
               <<"geo_n", "chu_g", "ha_g", "bu">>,
               <<"geo_n", "chu_g", "go_ng", "ha_g", "bu">>,
               <<"geo_n", "seo_l", "hwa_n", "gyeo_ng", "go_ng", "ha_g", "gwa">>,
               <<"do", "si", "go_ng", "ha_g", "gwa">>,
               <<"ja", "wo_n", "hwa_n", "gyeo_ng", "go_ng", "ha_g", "gwa">>,
               <<"yu_ng", "ha_b", "jeo_n", "ja", "go_ng", "ha_g", "bu">>,
               <<"jeo_n", "gi", "araea", "sae_ng", "che", "go_ng", "ha_g", "bu">>,
               <<"si_n", "so", "jae", "go_ng", "ha_g", "bu">>,
               <<"hwa", "ha_g", "go_ng", "ha_g", "gwa">>,
               <<"sae_ng", "myeo_ng", "go_ng", "ha_g", "gwa">>,
               <<"yu", "gi", "na", "no", "go_ng", "ha_g", "gwa">>,
               <<"e", "neo", "ji", "go_ng", "ha_g", "gwa">>,
               <<"gi", "gye", "go_ng", "ha_g", "bu">>,
               <<"wo_n", "ja", "ryeo_g", "go_ng", "ha_g", "gwa">>,
               <<"sa_n", "eo_b", "go_ng", "ha_g", "gwa">>>>],
    [name |-> <<"so", "peu", "teu", "we", "eo", "dae", "ha_g">>,
     majors |-> <<<<"de", "i", "teo", "sa", "i", "eo_n", "seu", "ha_g", "bu">>,
               <<"keo_m", "pyu", "teo", "so", "peu", "teu", "we", "eo", "ha_g", "bu">>,
               <<"jeo_ng", "bo", "si", "seu", "te_m", "ha_g", "gwa">>,
               <<"mi", "rae", "ja", "do_ng", "cha", "go_ng", "ha_g", "gwa">>>>],
    [name |-> <<"ga_n", "ho", "dae", "ha_g">>,
     majors |-> <<<<"ga_n", "ho", "ha_g", "gwa">>>>],
    [name |-> <<"i_n", "mu_n", "gwa", "ha_g", "dae", "ha_g">>,
     majors |-> <<<<"gu_g", "eo", "gu_g", "mu_n", "ha_g", "gwa">>,
               <<"ju_ng", "eo", "ju_ng", "mu_n", "ha_g", "gwa">>,
               <<"yeo_ng", "eo", "yeo_ng", "mu_n", "ha_g", "gwa">>,
               <<"do_g", "eo", "do_g", "mu_n", "ha_g", "gwa">>,
               <<"sa", "ha_g", "gwa">>,
               <<"cheo_l", "ha_g", "gwa">>,
               <<"mi", "rae", "i_n", "mu_n", "ha_g", "yu_ng", "ha_b", "ha_g", "bu">>,
               <<"dae", "ju_ng", "mu_n", "hwa", "middot", "si", "na", "ri", "o", "ha_g", "gwa">>>>],
    [name |-> <<"sa", "hoe", "gwa", "ha_g", "dae", "ha_g">>,
     majors |-> <<<<"jeo_ng", "chi", "oe", "gyo", "ha_g", "gwa">>,
               <<"sa", "hoe", "ha_g", "gwa">>,
               <<"mi", "di", "eo", "keo", "myu", "ni", "ke", "i", "syeo_n", "ha_g", "gwa">>,
               <<"gwa_n", "gwa_ng", "ha_g", "bu">>>>],
    [name |-> <<"sae_ng", "hwa_l", "gwa", "ha_g", "dae", "ha_g">>,
     majors |-> <<<<"ui", "ryu", "ha_g", "gwa">>,
               <<"si_g", "pu_m", "yeo_ng", "ya_ng", "ha_g", "gwa">>,
               <<"si_l", "nae", "geo_n", "chu_g", "di", "ja", "i_n", "ha_g", "gwa">>,
               <<"gi", "neu_ng", "seo_ng", "si_g", "pu_m", "ha_g", "gwa">>>>],
    [name |-> <<"ja", "yeo_n", "gwa", "ha_g", "dae", "ha_g">>,
     majors |-> <<<<"su", "ha_g", "gwa">>,
               <<"mu_l", "ri", "ha_g", "gwa">>,
               <<"hwa", "ha_g", "gwa">>,
               <<"sae_ng", "myeo_ng", "gwa", "ha_g", "gwa">>>>],
    [name |-> <<"jeo_ng", "chae_g", "gwa", "ha_g", "dae", "ha_g">>,
     majors |-> <<<<"jeo_ng", "chae_g", "ha_g", "gwa">>,
               <<"hae_ng", "jeo_ng", "ha_g", "gwa">>>>],
    [name |-> <<"gyeo_ng", "je", "geu_m", "yu_ng", "dae", "ha_g">>,
     majors |-> <<<<"gyeo_ng", "je", "geu_m", "yu_ng", "ha_g", "bu">>>>],
    [name |-> <<"gyeo_ng", "yeo_ng", "dae", "ha_g">>,
     majors |-> <<<<"gyeo_ng", "yeo_ng", "ha_g", "bu">>,
               <<"pa", "i", "nae_n", "seu", "gyeo_ng", "yeo_ng", "ha_g", "gwa">>>>],
    [name |-> <<"sa", "beo_m", "dae", "ha_g">>,
     majors |-> <<<<"gyo", "yu_g", "ha_g", "gwa">>,
               <<"gyo", "yu_g", "go_ng", "ha_g", "gwa">>,
               <<"gu_g", "eo", "gyo", "yu_g", "gwa">>,
               <<"yeo_ng", "eo", "gyo", "yu_g", "gwa">>,
               <<"su", "ha_g", "gyo", "yu_g", "gwa">>,
               <<"eu_ng", "yo_ng", "mi", "su_l", "gyo", "yu_g", "gwa">>>>],
    [name |-> <<"gu_g", "je", "ha_g", "bu">>,
     majors |-> <<<<"gu_g", "je", "ha_g", "bu">>>>],
    [name |-> <<"eu_m", "a_g", "dae", "ha_g">>,
     majors |-> <<<<"seo_ng", "a_g", "gwa">>,
               <<"ja_g", "go_g", "gwa">>,
               <<"pi", "a", "no", "gwa">>,
               <<"gwa_n", "hyeo_n", "a_g", "gwa">>,
               <<"gu_g", "a_g", "gwa">>>>],
    [name |-> <<"ye", "su_l", "che", "yu_g", "dae", "ha_g">>,
     majors |-> <<<<"seu", "po", "cheu", "sa_n", "eo_b", "gwa", "ha_g", "bu", " ", "seu", "po", "cheu", "sa", "i", "eo_n", "seu", "jeo_n", "go_ng">>,
               <<"seu", "po", "cheu", "sa_n", "eo_b", "gwa", "ha_g", "bu", " ", "seu", "po", "cheu", "mae", "ni", "ji", "meo_n", "teu", "jeo_n", "go_ng">>,
               <<"yeo_n", "geu_g", "yeo_ng", "hwa", "ha_g", "gwa">>,
               <<"mu", "yo_ng", "ha_g", "gwa">>>>] >>

\* `relatedColleges`: the field groups, each with the names of its colleges
relatedColleges == <<
    [name |-> <<"i", "go_ng", "gye", "yeo_l">>,
     colleges |-> <<<<"go_ng", "gwa", "dae", "ha_g">>,
                 <<"so", "peu", "teu", "we", "eo", "dae", "ha_g">>,
                 <<"ja", "yeo_n", "gwa", "ha_g", "dae", "ha_g">>>>],
    [name |-> <<"go_ng", "ha_g", "gye", "yeo_l">>,
     colleges |-> <<<<"go_ng", "gwa", "dae", "ha_g">>,
                 <<"so", "peu", "teu", "we", "eo", "dae", "ha_g">>>>],
    [name |-> <<"sa_ng", "gyeo_ng", "gye", "yeo_l">>,
     colleges |-> <<<<"gyeo_ng", "je", "geu_m", "yu_ng", "dae", "ha_g">>,
                 <<"gyeo_ng", "yeo_ng", "dae", "ha_g">>,
                 <<"sa", "hoe", "gwa", "ha_g", "dae", "ha_g">>>>],
    [name |-> <<"i_n", "mu_n", "gye", "yeo_l">>,
     colleges |-> <<<<"i_n", "mu_n", "gwa", "ha_g", "dae", "ha_g">>,
                 <<"sa", "hoe", "gwa", "ha_g", "dae", "ha_g">>,
                 <<"sa", "beo_m", "dae", "ha_g">>>>],
    [name |-> <<"i_n", "mu_n", "sa", "hoe", "gye", "yeo_l">>,
     colleges |-> <<<<"i_n", "mu_n", "gwa", "ha_g", "dae", "ha_g">>,
                 <<"sa", "hoe", "gwa", "ha_g", "dae", "ha_g">>,
                 <<"jeo_ng", "chae_g", "gwa", "ha_g", "dae", "ha_g">>,
                 <<"sa", "beo_m", "dae", "ha_g">>>>],
    [name |-> <<"sa", "hoe", "gye", "yeo_l">>,
     colleges |-> <<<<"sa", "hoe", "gwa", "ha_g", "dae", "ha_g">>,
                 <<"jeo_ng", "chae_g", "gwa", "ha_g", "dae", "ha_g">>>>],
    [name |-> <<"eo", "mu_n", "gye", "yeo_l">>,
     colleges |-> <<<<"i_n", "mu_n", "gwa", "ha_g", "dae", "ha_g">>>>],
    [name |-> <<"S", "W">>,
     colleges |-> <<<<"so", "peu", "teu", "we", "eo", "dae", "ha_g">>>>] >>

\* `special`: the special categories, each with its majors
special == <<
    [name |-> <<"jeo_n", "sa_n">>,
     majors |-> <<<<"keo_m", "pyu", "teo", "so", "peu", "teu", "we", "eo", "ha_g", "bu">>,
               <<"de", "i", "teo", "sa", "i", "eo_n", "seu", "ha_g", "bu">>,
               <<"jeo_ng", "bo", "si", "seu", "te_m", "ha_g", "gwa">>,
               <<"yu_ng", "ha_b", "jeo_n", "ja", "go_ng", "ha_g", "bu">>,
               <<"mi", "rae", "ja", "do_ng", "cha", "go_ng", "ha_g", "gwa">>>>],
    [name |-> <<"gwa_ng", "go", "ho_ng", "bo">>,
     majors |-> <<<<"mi", "di", "eo", "keo", "myu", "ni", "ke", "i", "syeo_n", "ha_g", "gwa">>,
               <<"dae", "ju_ng", "mu_n", "hwa", "middot", "si", "na", "ri", "o", "ha_g", "gwa">>,
               <<"gyeo_ng", "yeo_ng", "ha_g", "bu">>,
               <<"sa", "hoe", "ha_g", "gwa">>>>],
    [name |-> <<"ui", "ryo", "ba", "i", "o">>,
     majors |-> <<<<"ui", "ha_g", "gwa">>,
               <<"ga_n", "ho", "ha_g", "gwa">>,
               <<"sae_ng", "myeo_ng", "go_ng", "ha_g", "gwa">>,
               <<"hwa", "ha_g", "go_ng", "ha_g", "gwa">>>>],
    [name |-> <<"di", "ja", "i_n">>,
     majors |-> <<<<"eu_ng", "yo_ng", "mi", "su_l", "gyo", "yu_g", "gwa">>,
               <<"si_l", "nae", "geo_n", "chu_g", "di", "ja", "i_n", "ha_g", "gwa">>,
               <<"dae", "ju_ng", "mu_n", "hwa", "middot", "si", "na", "ri", "o", "ha_g", "gwa">>>>],
    [name |-> <<"keo_m", "pyu", "teo", "go_ng", "ha_g">>,
     majors |-> <<<<"keo_m", "pyu", "teo", "so", "peu", "teu", "we", "eo", "ha_g", "bu">>>>],
    [name |-> <<"ye", "che", "neu_ng">>,
     majors |-> <<<<"eu_ng", "yo_ng", "mi", "su_l", "gyo", "yu_g", "gwa">>,
               <<"si_l", "nae", "geo_n", "chu_g", "di", "ja", "i_n", "ha_g", "gwa">>,
               <<"dae", "ju_ng", "mu_n", "hwa", "middot", "si", "na", "ri", "o", "ha_g", "gwa">>,
               <<"si", "ga_g", "di", "ja", "i_n", "ha_g", "gwa">>,
               <<"seu", "po", "cheu", "sa_n", "eo_b", "gwa", "ha_g", "bu", " ", "seu", "po", "cheu", "sa", "i", "eo_n", "seu", "jeo_n", "go_ng">>,
               <<"seu", "po", "cheu", "sa_n", "eo_b", "gwa", "ha_g", "bu", " ", "seu", "po", "cheu", "mae", "ni", "ji", "meo_n", "teu", "jeo_n", "go_ng">>,
               <<"yeo_n", "geu_g", "yeo_ng", "hwa", "ha_g", "gwa">>,
               <<"mu", "yo_ng", "ha_g", "gwa">>>>],
    [name |-> <<"jeo_n", "gi", "jeo_n", "ja", "go_ng", "ha_g">>,
     majors |-> <<<<"jeo_n", "gi", "araea", "sae_ng", "che", "go_ng", "ha_g", "bu">>>>],
    [name |-> <<"jae", "ryo", "go_ng", "ha_g">>,
     majors |-> <<<<"si_n", "so", "jae", "go_ng", "ha_g", "bu">>>>],
    [name |-> <<"sae_ng", "mu_l", "ha_g">>,
     majors |-> <<<<"sae_ng", "myeo_ng", "go_ng", "ha_g", "gwa">>>>],
    [name |-> <<"cha_ng", "eo_b">>,
     majors |-> <<<<"cha_ng", "eo_b", " ", "gyeo_ng", "heo_m">>>>] >>

\* the three tables as they are loaded when the process starts
Taxonomy ==
    [colleges |-> colleges, relatedColleges |-> relatedColleges, special |-> special]

-----------------------------------------------------------------------------

DatesIdle ==
    /\ pc = "idle"
    /\ input = << >>
    /\ parsedObject = << >>
    /\ lastKnownYear = NoYear
    /\ k = 1
    /\ matches = << >>
    /\ transformedValue = << >>
    /\ match = << >>
    /\ transformedDate = << >>
    /\ calls = 0
    /\ returned = << >>
    /\ reapplied = FALSE
    /\ firstOutput = << >>
    /\ leftYear = NoYear

\* no matcher call has been made
MajorsIdle ==
    /\ mpc = "idle"
    /\ selection = << >>
    /\ inputs = << >>
    /\ flatInputs = << >>
    /\ idx = 1
    /\ relatedData = << >>
    /\ foundExactMatch = FALSE
    /\ result = << >>
    /\ tables = Taxonomy

\* no field parser has been called
FieldsIdle ==
    /\ fpc = "idle"
    /\ called = ""
    /\ argument = << >>
    /\ outcome = << >>

\* no posting is being transformed
PostingIdle ==
    /\ tpc = "idle"
    /\ posting = << >>
    /\ pos = 1
    /\ transformedData = << >>
    /\ thrown = ""

\* no batch is being saved
DynamoIdle ==
    /\ dpc = "idle"
    /\ batch = << >>
    /\ at = 1
    /\ putItems = << >>
    /\ dynamoError = ""

\* the handler has not been invoked
HandlerIdle ==
    /\ hpc = "idle"
    /\ event = << >>
    /\ recordAt = 1
    /\ itemAt = 1
    /\ processedData = << >>
    /\ effects = << >>
    /\ failure = ""

Init ==
    DatesIdle /\ MajorsIdle /\ FieldsIdle /\ PostingIdle /\ DynamoIdle /\ HandlerIdle

NextDates ==
    \/ Call
    \/ CallAgain
    \/ Reapply
    \/ Pass1
    \/ SkipField
    \/ BeginField
    \/ HandleMatch
    \/ Return

SpecDates == Init /\ [][NextDates]_vars

-----------------------------------------------------------------------------
(* Properties of standardizeDates *)

\* a call has returned and nothing has been started since
Returned == pc = "idle" /\ calls > 0

\* the text of a match without its leading "~"
Untilde(m) == IF m # << >> /\ Head(m) = "~" THEN Tail(m) ELSE m

\* "." replaced by "-" throughout
RECURSIVE Dashed(_)
Dashed(s) ==
    IF s = << >> THEN << >>
    ELSE <<IF Head(s) = "." THEN "-" ELSE Head(s)>> \o Dashed(Tail(s))

\* a match that carries a year: a full date or a tilde date
IsYearDate(m) == fullDatePattern(m) \/ tildeDatePattern(m)

\* the matches of value v that come before its first full or tilde date
EarlySpans(v) ==
    LET spans == DateLikeSpans(v)
        yearAt == {i \in 1..Len(spans) : IsYearDate(Slice(v, spans[i][1], spans[i][2]))}
    IN  {spans[i] : i \in {j \in 1..Len(spans) : \A y \in yearAt : j < y}}

\* no full or tilde date in the fields before field f
NoYearBefore(obj, f) ==
    \A j \in 1..(f - 1) : \A i \in 1..Len(DateLikeMatches(obj[j])) :
        ~IsYearDate(DateLikeMatches(obj[j])[i])

\* C1: standardizeDates is idempotent: when a call is given the mapping the
\* previous call returned, it returns that mapping again, field by field.
C1_Idempotent == (Returned /\ reapplied) => returned = firstOutput

\* C2: every partial date MM.DD that the scan meets before the first full or
\* tilde date of the call stands unrewritten, at its place, in the returned
\* mapping, whatever follows it in the same value.
C2_EarlyPartialKept ==
    Returned =>
        LET n == NormalizeAll(input)
        IN  \A f \in 1..Len(n) : NoYearBefore(n, f) =>
                \A sp \in EarlySpans(n[f]) :
                    partialDatePattern(Slice(n[f], sp[1], sp[2])) =>
                        Slice(returned[f], sp[1], sp[2]) = Slice(n[f], sp[1], sp[2])

\* C3: when the callback has handled a match that is a partial date MM.DD,
\* with or without a range tilde in front of it, while a year was known, the
\* text it substituted is <lastKnownYear>-MM-DD (behind the tilde, if any).
C3_LatePartialRewritten ==
    (pc \in {"match", "pass2"} /\ match # << >>
        /\ partialDatePattern(Untilde(match)) /\ lastKnownYear # NoYear)
    => Untilde(transformedDate) = lastKnownYear \o <<"-">> \o Dashed(Untilde(match))

\* C4: the year is carried from field to field in insertion order: of the two
\* fields MM.DD and YYYY.MM.DD in that order the first is returned as it was
\* and the second as YYYY-MM-DD; in the reverse order the partial date is
\* returned as YYYY-MM-DD with the year of the full date.
C4_YearAcrossFields ==
    (Returned /\ Len(input) = 2) =>
        /\ (partialDatePattern(input[1]) /\ fullDatePattern(input[2])
                /\ DigitRun(input[2], 1) = 4)
            => returned = <<input[1], Dashed(input[2])>>
        /\ (fullDatePattern(input[1]) /\ DigitRun(input[1], 1) = 4
                /\ partialDatePattern(input[2]))
            => returned = <<Dashed(input[1]),
                            SubSeq(input[1], 1, 4) \o <<"-">> \o Dashed(input[2])>>

C4_Witness ==
    /\ Returned
    /\ Len(input) = 2
    /\ fullDatePattern(input[1])
    /\ DigitRun(input[1], 1) = 4
    /\ partialDatePattern(input[2])
    /\ returned[2] # input[2]

\* C5: the last known year does not outlive a call: whatever calls were made
\* before, a call returns what it would return if it were the only call ever
\* made (partial dates stay unrewritten although an earlier call saw a year).
C5_NoYearAcrossCalls == Returned => returned = standardizeDates(input)

C5_Witness ==
    /\ Returned
    /\ calls >= 2
    /\ leftYear # NoYear
    /\ input = <<PartialTok>>
    /\ returned = <<PartialTok>>

\* C6: when the callback has handled a full date (a year of 2 to 4 digits,
\* with or without a leading tilde), the text it substituted is YYYY-MM-DD
\* with a year of four digits, 20YY for a two-digit year YY, behind the tilde
\* if there is one, and lastKnownYear is that year.
C6_FullDateFourDigitYear ==
    (pc \in {"match", "pass2"} /\ match # << >> /\ IsYearDate(match)) =>
        LET n == DigitRun(Untilde(match), 1)
            yy == SubSeq(Untilde(match), 1, n)
            rest == SubSeq(Untilde(match), n + 1, Len(Untilde(match)))
        IN  /\ Len(lastKnownYear) = 4
            /\ n = 2 => lastKnownYear = <<"2", "0">> \o yy
            /\ n = 4 => lastKnownYear = yy
            /\ Untilde(transformedDate) = lastKnownYear \o Dashed(rest)
            /\ (Head(match) = "~") = (Head(transformedDate) = "~")

-----------------------------------------------------------------------------
(* Strings of the major matcher *)

\* the Latin letters of the model; no romanised syllable is a single consonant
ToLowerChar(c) ==
    CASE c = "S" -> "s"
      [] c = "W" -> "w"
      [] c = "X" -> "x"
      [] OTHER -> c

\* s.toLowerCase()
toLowerCase(s) == [i \in 1..Len(s) |-> ToLowerChar(s[i])]

\* \w of a JavaScript regular expression, on the characters of the model
IsWordChar(c) == c \in {"S", "W", "X", "s", "w", "x"} \cup Digits

\* the first of the literal alternatives alts (in their order) that occurs in
\* s at position i, as its length; 0 when none does
RECURSIVE AltAt(_, _, _)
AltAt(s, alts, i) ==
    IF alts = << >> THEN 0
    ELSE IF OccursAt(s, Head(alts), i) THEN Len(Head(alts))
    ELSE AltAt(s, Tail(alts), i)

\* s.replace(/a|b|.../g, "") from position i on
RECURSIVE RemoveAllFrom(_, _, _)
RemoveAllFrom(s, alts, i) ==
    IF i > Len(s) THEN << >>
    ELSE LET n == AltAt(s, alts, i)
         IN  IF n > 0 THEN RemoveAllFrom(s, alts, i + n)
             ELSE <<s[i]>> \o RemoveAllFrom(s, alts, i + 1)

RemoveAll(s, alts) == RemoveAllFrom(s, alts, 1)

\* s.split(/a|b|.../)[0]: the text before the first alternative that occurs
RECURSIVE BeforeFirstFrom(_, _, _)
BeforeFirstFrom(s, alts, i) ==
    IF i > Len(s) THEN s
    ELSE IF AltAt(s, alts, i) > 0 THEN SubSeq(s, 1, i - 1)
    ELSE BeforeFirstFrom(s, alts, i + 1)

-----------------------------------------------------------------------------
(* parseMajors *)

sentinel == <<"mu", "gwa_n">>

\* lines 30-35: the phrases that mean "no constraint"
NoConstraintPhrases ==
    << sentinel,
       <<"mo", "deu_n", " ", "gye", "yeo_l">>,
       <<"mo", "deu_n", " ", "ha_g", "gwa">>,
       <<"mo", "deu_n", "gwa">> >>

\* lines 30-35 with the selection compared with the phrases as a whole
HasNoConstraintExact(sel) ==
    \E n \in 1..Len(NoConstraintPhrases) : sel = NoConstraintPhrases[n]

\* lines 30-35: one of the phrases occurs in the selection
HasNoConstraint(sel) ==
    \E n \in 1..Len(NoConstraintPhrases) : Includes(sel, NoConstraintPhrases[n])

\* /\b(S\/W)\b/gi tried at position i
specialRegex(s, i) ==
    /\ i + 2 <= Len(s)
    /\ toLowerCase(SubSeq(s, i, i + 2)) = <<"s", "/", "w">>
    /\ (i = 1 \/ ~IsWordChar(s[i - 1]))
    /\ (i + 3 > Len(s) \/ ~IsWordChar(s[i + 3]))

\* the matches the replace callback pushes, from position i on
RECURSIVE extractedSpecials(_, _)
extractedSpecials(s, i) ==
    IF i > Len(s) THEN << >>
    ELSE IF specialRegex(s, i)
         THEN <<Trim(SubSeq(s, i, i + 2))>> \o extractedSpecials(s, i + 3)
         ELSE extractedSpecials(s, i + 1)

\* the selection with those matches replaced by ""
RECURSIVE WithoutSpecials(_, _)
WithoutSpecials(s, i) ==
    IF i > Len(s) THEN << >>
    ELSE IF specialRegex(s, i) THEN WithoutSpecials(s, i + 3)
         ELSE <<s[i]>> \o WithoutSpecials(s, i + 1)

\* selection.replace(bulletPointRegex, " ") from position i on; the class
\* holds "-", U+2022 and "*"
RECURSIVE bulletPointRegex(_, _)
bulletPointRegex(s, i) ==
    IF i > Len(s) THEN << >>
    ELSE IF s[i] \in {"-", "blackdot", "*"}
         THEN <<" ">> \o bulletPointRegex(s, SkipSpaces(s, i + 1))
         ELSE <<s[i]>> \o bulletPointRegex(s, i + 1)

\* the alternation  ,  /  " mich "  U+2219  \n  \s+  tried in this order at
\* position i: the position after the match, 0 when it fails
separators(s, i) ==
    IF s[i] \in {",", "/"} THEN i + 1
    ELSE IF OccursAt(s, <<" ", "mi_ch", " ">>, i) THEN i + 3
    ELSE IF s[i] \in {"bullet", "\n"} THEN i + 1
    ELSE IF IsSpace(s[i]) THEN SkipSpaces(s, i)
    ELSE 0

\* selection.split(separators): i is the position tried, start the beginning
\* of the piece being collected
RECURSIVE SplitSeparators(_, _, _)
SplitSeparators(s, i, start) ==
    IF i > Len(s) THEN <<SubSeq(s, start, Len(s))>>
    ELSE LET e == separators(s, i)
         IN  IF e > 0 THEN <<SubSeq(s, start, i - 1)>> \o SplitSeparators(s, e, e)
             ELSE SplitSeparators(s, i + 1, start)

\* lines 55-60: the map callback
CleanItem(item) ==
    Trim(RemoveAll(BeforeFirstFrom(item, <<<<"deu_ng">>, <<"gwa_n", "ryeo_n">>>>, 1),
                   <<<<"(">>, <<")">>>>))

\* line 61: the filter callback
KeepItem(item) ==
    /\ Len(item) > 0
    /\ item # <<"gye", "yeo_l">>
    /\ item # <<"ha_g", "gwa", ",", " ", "ha_g", "bu", ",", " ", "gwa">>
    /\ item # <<"+", " ", "cha_ng", "eo_b">>

\* .map(...).filter(...) over the pieces
RECURSIVE CleanAndKeep(_)
CleanAndKeep(pieces) ==
    IF pieces = << >> THEN << >>
    ELSE (IF KeepItem(CleanItem(Head(pieces)))
          THEN <<CleanItem(Head(pieces))>> ELSE << >>)
         \o CleanAndKeep(Tail(pieces))

cleanedMajors(sel) == CleanAndKeep(SplitSeparators(sel, 1, 1))

parseMajors(sel) ==
    IF HasNoConstraint(sel) THEN <<sentinel>>
    ELSE extractedSpecials(sel, 1)
         \o cleanedMajors(bulletPointRegex(WithoutSpecials(sel, 1), 1))

-----------------------------------------------------------------------------
(* The taxonomy: lookups *)

\* colleges[college]?.forEach(...): the majors of the college of that name,
\* none when there is no such college
MajorsOfCollege(college) ==
    Flatten([n \in 1..Len(colleges) |->
                IF colleges[n].name = college THEN colleges[n].majors ELSE << >>])

-----------------------------------------------------------------------------
(* findRelatedMajor *)

\* the Set holds the items given last only
AddAllAnew(set, items) == items

\* Set.add of each member of items, in order; the Set keeps insertion order
RECURSIVE AddAll(_, _)
AddAll(set, items) ==
    IF items = << >> THEN set
    ELSE IF Len(items) = 1
         THEN (IF \E n \in 1..Len(set) : set[n] = items[1]
               THEN set ELSE Append(set, items[1]))
    ELSE LET h == Len(items) \div 2
             first == AddAll(set, SubSeq(items, 1, h))
         IN  \* the first half is added before the second is looked at
             IF Len(first) >= 0
             THEN AddAll(first, SubSeq(items, h + 1, Len(items)))
             ELSE first

\* /[,\s]+/ tried at position i: the position after the match, 0 on failure
RECURSIVE CommaSpaceRun(_, _)
CommaSpaceRun(s, i) ==
    IF i <= Len(s) /\ (s[i] = "," \/ IsSpace(s[i]))
    THEN LET e == CommaSpaceRun(s, i + 1) IN IF e = 0 THEN i + 1 ELSE e
    ELSE 0

\* input.split(/[,\s]+/)
RECURSIVE SplitCommaSpace(_, _, _)
SplitCommaSpace(s, i, start) ==
    IF i > Len(s) THEN <<SubSeq(s, start, Len(s))>>
    ELSE LET e == CommaSpaceRun(s, i)
         IN  IF e > 0 THEN <<SubSeq(s, start, i - 1)>> \o SplitCommaSpace(s, e, e)
             ELSE SplitCommaSpace(s, i + 1, start)

\* line 82: str.replace(/<hag gwa>|<hag bu>|<jeon gong>|<hag>/g, "").trim()
StripMorphemes(str) ==
    Trim(RemoveAll(str, << <<"ha_g", "gwa">>, <<"ha_g", "bu">>,
                           <<"jeo_n", "go_ng">>, <<"ha_g">> >>))

\* the sequences of strs that are not empty
RECURSIVE NonEmpty(_)
NonEmpty(strs) ==
    IF strs = << >> THEN << >>
    ELSE (IF Len(Head(strs)) > 0 THEN <<Head(strs)>> ELSE << >>)
         \o NonEmpty(Tail(strs))

\* lines 80-83: the atomic inputs of a token list
FlatInputs(tokens) ==
    LET parts == Flatten([n \in 1..Len(tokens) |-> SplitCommaSpace(tokens[n], 1, 1)])
    IN  NonEmpty([n \in 1..Len(parts) |-> StripMorphemes(parts[n])])

\* lines 85-87: the majors of the colleges, then those of the special
\* categories, without repetition
allMajors ==
    AddAll(<< >>, Flatten([n \in 1..Len(colleges) |-> colleges[n].majors])
                  \o Flatten([n \in 1..Len(special) |-> special[n].majors]))

\* lines 94 and 142-143: replace(/<hag gwa>|<hag bu>|<jeon gong>/g, "")
normalizedMajor(major) ==
    RemoveAll(major, << <<"ha_g", "gwa">>, <<"ha_g", "bu">>, <<"jeo_n", "go_ng">> >>)

\* one row of the edit-distance table: prev is the row of the prefix of a
\* before c, cur the cells of the new row computed so far
RECURSIVE DistanceRow(_, _, _, _)
DistanceRow(prev, c, b, cur) ==
    IF Len(cur) = Len(prev) THEN cur
    ELSE LET j == Len(cur)
             cell == Min(Min(prev[j + 1] + 1, cur[j] + 1),
                         prev[j] + (IF c = b[j] THEN 0 ELSE 1))
         IN  DistanceRow(prev, c, b, Append(cur, cell))

RECURSIVE DistanceRows(_, _, _, _)
DistanceRows(a, b, i, prev) ==
    IF i > Len(a) THEN prev[Len(b) + 1]
    ELSE DistanceRows(a, b, i + 1, DistanceRow(prev, a[i], b, <<i>>))

\* levenshtein.distance(a, b): the number of single-character insertions,
\* deletions and substitutions that turn a into b
distance(a, b) == DistanceRows(a, b, 1, [j \in 1..(Len(b) + 1) |-> j - 1])

\* line 91: `let bestDistance = Infinity`; no distance of the model comes near
Infinity == 1000000

\* line 97 with `distance <= bestDistance`: a later major at the same distance
\* replaces an earlier one
BetterMatchOrEqual(d, bestDistance) == d <= bestDistance /\ d <= 1

\* line 97: the condition under which a major becomes the best match
BetterMatch(d, bestDistance) == d < bestDistance /\ d <= 1

\* lines 94-100: one round of the loop, on the n-th of allMajors; best is
\* the pair of bestMatch and bestDistance
BestMatchStep(in, n, best) ==
    LET d == distance(in, normalizedMajor(allMajors[n]))
    IN  IF BetterMatch(d, best.bestDistance)
        THEN [bestMatch |-> allMajors[n], bestDistance |-> d]
        ELSE best

\* lines 93-101: the rounds lo .. hi of the loop, in order
RECURSIVE BestMatchLoop(_, _, _, _)
BestMatchLoop(in, lo, hi, best) ==
    IF lo > hi THEN best
    ELSE IF lo = hi THEN BestMatchStep(in, lo, best)
    ELSE LET mid == (lo + hi) \div 2
             first == BestMatchLoop(in, lo, mid, best)
         IN  \* the rounds lo .. mid are over before the others begin
             IF first.bestDistance >= 0
             THEN BestMatchLoop(in, mid + 1, hi, first)
             ELSE first

\* lines 89-104: `bestMatch || input`
correctMajor(in) ==
    LET best == BestMatchLoop(in, 1, Len(allMajors),
                              [bestMatch |-> << >>, bestDistance |-> Infinity])
    IN  IF best.bestMatch # << >> THEN best.bestMatch ELSE in

\* line 115
SpecialMatches(n, in) ==
    Includes(special[n].name, in) \/ Includes(in, special[n].name)

\* line 123
GroupMatches(n, in) ==
    \/ Includes(relatedColleges[n].name, in)
    \/ Includes(in, ReplaceFirst(relatedColleges[n].name, <<"gye", "yeo_l">>, << >>))

\* line 133
CollegeMatches(n, in) ==
    Includes(in, ReplaceFirst(colleges[n].name, <<"dae", "ha_g">>, << >>))

\* lines 142-148
MajorMatches(major, in) ==
    LET nMajor == toLowerCase(normalizedMajor(major))
        nInput == toLowerCase(normalizedMajor(in))
    IN  StartsWith(nMajor, nInput) \/ StartsWith(nInput, nMajor)

\* lines 114-119: the majors the special tier adds, in order
SpecialAdds(in) ==
    Flatten([n \in 1..Len(special) |->
                IF SpecialMatches(n, in) THEN special[n].majors ELSE << >>])

\* lines 122-129
GroupAdds(in) ==
    Flatten([n \in 1..Len(relatedColleges) |->
                IF GroupMatches(n, in)
                THEN Flatten([c \in 1..Len(relatedColleges[n].colleges) |->
                                 MajorsOfCollege(relatedColleges[n].colleges[c])])
                ELSE << >>])

\* lines 132-137
CollegeAdds(in) ==
    Flatten([n \in 1..Len(colleges) |->
                IF CollegeMatches(n, in) THEN colleges[n].majors ELSE << >>])

\* lines 140-153
MajorAdds(in) ==
    LET majors == Flatten([n \in 1..Len(colleges) |-> colleges[n].majors])
    IN  Flatten([m \in 1..Len(majors) |->
                    IF MajorMatches(majors[m], in) THEN <<majors[m]>> ELSE << >>])

\* what tiers 2 to 5 add for one atomic input
TierAdds(in) == SpecialAdds(in) \o GroupAdds(in) \o CollegeAdds(in) \o MajorAdds(in)

\* the value of foundExactMatch after tiers 2 to 5
TierFound(in) ==
    \/ \E n \in 1..Len(special) : SpecialMatches(n, in)
    \/ \E n \in 1..Len(relatedColleges) : GroupMatches(n, in)
    \/ \E n \in 1..Len(colleges) : CollegeMatches(n, in)
    \/ \E n \in 1..Len(colleges) :
          \E m \in 1..Len(colleges[n].majors) : MajorMatches(colleges[n].majors[m], in)

\* lines 155-160 with the corrected input added whatever it is
FallbackAddsAlways(in) == <<correctMajor(in)>>

\* lines 155-160: what the fallback adds for an atomic input no tier matched
FallbackAdds(in) ==
    LET correctedInput == correctMajor(in)
    IN  IF correctedInput # in THEN <<correctedInput>> ELSE << >>

\* lines 107-109 with the sentinel appended to what was accumulated
SentinelReturnKept(data, in) == Append(data, in)

\* lines 107-109: `return [input]`
SentinelReturn(data, in) == <<in>>

\* the loop body for the atomic inputs from the n-th on
RECURSIVE MatchFrom(_, _, _)
MatchFrom(flat, n, data) ==
    IF n > Len(flat) THEN data
    ELSE IF flat[n] = sentinel THEN SentinelReturn(data, flat[n])
    ELSE MatchFrom(flat, n + 1,
                   AddAll(AddAll(data, TierAdds(flat[n])),
                          IF TierFound(flat[n]) THEN << >> ELSE FallbackAdds(flat[n])))

findRelatedMajor(tokens) == MatchFrom(FlatInputs(tokens), 1, << >>)

\* lines 13-16
handleMajors(value) == findRelatedMajor(parseMajors(value))

-----------------------------------------------------------------------------
(* The texts and token lists the matcher is called with *)

\* A token list holds at most this many tokens.
MaxInputs == 2

\* A selection text is made of at most this many pieces.
MaxPieces == 3

\* Misspellings are taken of the majors whose name without its suffix has at
\* most this many characters.
MaxStem == 2

Tokens ==
    { sentinel,
      <<"mu", "gwa_n", "ha_g", "gwa">>,
      <<"jeo_n", "sa_n", ",", " ", "mu", "gwa_n">>,
      <<"jeo_n", "sa_n">>,
      <<"i", "go_ng", "gye", "yeo_l">>,
      <<"ga_n", "ho", "ha_g", "gwa">>,
      <<"ga_n", "o">>,
      <<"X", "X">> }

\* the strings one insertion, deletion or substitution away from s, the
\* inserted character being "X" or "ha_g"
EditChars == {"X", "ha_g"}

Misspellings(s) ==
    ( {SubSeq(s, 1, i - 1) \o SubSeq(s, i + 1, Len(s)) : i \in 1..Len(s)}
      \cup {SubSeq(s, 1, i - 1) \o <<c>> \o SubSeq(s, i + 1, Len(s)) :
              i \in 1..Len(s), c \in EditChars}
      \cup {SubSeq(s, 1, i) \o <<c>> \o SubSeq(s, i + 1, Len(s)) :
              i \in 0..Len(s), c \in EditChars} ) \ {s, << >>}

NearTokens ==
    UNION {Misspellings(normalizedMajor(allMajors[n])) :
             n \in {m \in 1..Len(allMajors) :
                      Len(normalizedMajor(allMajors[m])) <= MaxStem}}

\* the names of the colleges
CollegeNames == {colleges[n].name : n \in 1..Len(colleges)}

TokenLists ==
    UNION {[1..n -> Tokens] : n \in 1..MaxInputs}
       \cup {<<t>> : t \in NearTokens}
       \cup {<<t>> : t \in CollegeNames}

SelectionPieces ==
    { sentinel,
      <<"mo", "deu_n">>,
      <<" ", "gye", "yeo_l">>,
      <<" ", "ha_g", "gwa">>,
      <<"gwa">>,
      <<"jeo_n", "sa_n">>,
      <<"X", ",">> }

\* texts with the special token standing alone
SpecialSelections ==
    { <<"S", "/", "W">>,
      <<"s", "/", "w">>,
      <<"S", "/", "W", ",", " ", "jeo_n", "sa_n">>,
      <<"X", "X", " ", "S", "/", "W">> }

\* the majors listed under a college, by their full names
CollegeMajors ==
    UNION {{colleges[n].majors[m] : m \in 1..Len(colleges[n].majors)} :
             n \in 1..Len(colleges)}

Selections ==
    {Flatten(ps) : ps \in UNION {[1..n -> SelectionPieces] : n \in 1..MaxPieces}}
       \cup CollegeMajors
       \cup SpecialSelections

-----------------------------------------------------------------------------
(* The steps of a matcher call *)

\* handleMajors, line 14
CallHandleMajors ==
    /\ mpc = "idle"
    /\ \E value \in Selections :
          /\ selection' = value
          /\ inputs' = parseMajors(value)
    /\ mpc' = "parsed"
    /\ UNCHANGED <<flatInputs, idx, relatedData, foundExactMatch, result, tables, dateVars, otherVars>>

\* findRelatedMajor called on a token list of its own
CallFindRelatedMajor ==
    /\ mpc = "idle"
    /\ \E tokens \in TokenLists : inputs' = tokens
    /\ mpc' = "parsed"
    /\ UNCHANGED <<selection, flatInputs, idx, relatedData, foundExactMatch,
                   result, tables, dateVars, otherVars>>

\* lines 78-83
PrePass ==
    /\ mpc = "parsed"
    /\ flatInputs' = FlatInputs(inputs)
    /\ relatedData' = << >>
    /\ idx' = 1
    /\ mpc' = "loop"
    /\ UNCHANGED <<selection, inputs, foundExactMatch, result, tables, dateVars, otherVars>>

ReturnSentinel ==
    /\ mpc = "loop"
    /\ idx <= Len(flatInputs)
    /\ flatInputs[idx] = sentinel
    /\ result' = SentinelReturn(relatedData, flatInputs[idx])
    /\ mpc' = "done"
    /\ UNCHANGED <<selection, inputs, flatInputs, idx, relatedData,
                   foundExactMatch, tables, dateVars, otherVars>>

\* the tiers with the majors of a matched special category taken out of the
\* table as they are added
MatchTiersTakingOut ==
    /\ mpc = "loop"
    /\ idx <= Len(flatInputs)
    /\ flatInputs[idx] # sentinel
    /\ relatedData' = AddAll(relatedData, TierAdds(flatInputs[idx]))
    /\ foundExactMatch' = TierFound(flatInputs[idx])
    /\ tables' = [tables EXCEPT !.special =
                     [n \in 1..Len(@) |->
                         IF SpecialMatches(n, flatInputs[idx])
                         THEN [@[n] EXCEPT !.majors = << >>] ELSE @[n]]]
    /\ mpc' = "fallback"
    /\ UNCHANGED <<selection, inputs, flatInputs, idx, result, dateVars, otherVars>>

\* lines 111-153: tiers 2 to 5 for one atomic input
MatchTiers ==
    /\ mpc = "loop"
    /\ idx <= Len(flatInputs)
    /\ flatInputs[idx] # sentinel
    /\ relatedData' = AddAll(relatedData, TierAdds(flatInputs[idx]))
    /\ foundExactMatch' = TierFound(flatInputs[idx])
    /\ mpc' = "fallback"
    /\ UNCHANGED <<selection, inputs, flatInputs, idx, result, tables, dateVars, otherVars>>

\* lines 155-161: the fallback, and on to the next atomic input
Fallback ==
    /\ mpc = "fallback"
    /\ relatedData' = IF foundExactMatch THEN relatedData
                      ELSE AddAll(relatedData, FallbackAdds(flatInputs[idx]))
    /\ idx' = idx + 1
    /\ mpc' = "loop"
    /\ UNCHANGED <<selection, inputs, flatInputs, foundExactMatch, result, tables, dateVars, otherVars>>

\* line 163
ReturnResult ==
    /\ mpc = "loop"
    /\ idx > Len(flatInputs)
    /\ result' = relatedData
    /\ mpc' = "done"
    /\ UNCHANGED <<selection, inputs, flatInputs, idx, relatedData,
                   foundExactMatch, tables, dateVars, otherVars>>

NextMajors ==
    \/ CallHandleMajors
    \/ CallFindRelatedMajor
    \/ PrePass
    \/ ReturnSentinel
    \/ MatchTiers
    \/ Fallback
    \/ ReturnResult

SpecMajors == Init /\ [][NextMajors]_vars

-----------------------------------------------------------------------------
(* Properties of the major matcher *)

\* the matcher call has returned
Done == mpc = "done"

\* m is a member of the returned array
InResult(m) == \E n \in 1..Len(result) : result[n] = m

\* no atomic input of the call is the sentinel
NoSentinel == \A i \in 1..Len(flatInputs) : flatInputs[i] # <<"mu", "gwa_n">>

\* the places in allMajors of the majors whose name without its suffix is
\* exactly one edit away from x
NearMajors(x) ==
    {n \in 1..Len(allMajors) : distance(x, normalizedMajor(allMajors[n])) = 1}

\* the first of them in declaration order
FirstNear(x) == allMajors[CHOOSE n \in NearMajors(x) : \A m \in NearMajors(x) : n <= m]

\* x is matched by none of tiers 2 to 5 and is two edits or more away from
\* every major
FarInput(x) ==
    /\ ~TierFound(x)
    /\ \A n \in 1..Len(allMajors) : distance(x, normalizedMajor(allMajors[n])) >= 2

\* C7: when some atomic input of the call is the sentinel, at whatever place,
\* the call returns exactly the one-element array of the sentinel, and the
\* loop has not gone past the first such input: what earlier inputs added is
\* dropped and later inputs are not looked at.
C7_SentinelOverrides ==
    Done =>
      \A i \in 1..Len(flatInputs) :
         flatInputs[i] = <<"mu", "gwa_n">> =>
            /\ result = << <<"mu", "gwa_n">> >>
            /\ idx <= i

\* the sentinel is the second of three atomic inputs and the first one had
\* added majors
C7_Witness ==
    /\ Done
    /\ Len(flatInputs) = 3
    /\ flatInputs[2] = <<"mu", "gwa_n">>
    /\ flatInputs[1] # <<"mu", "gwa_n">>
    /\ relatedData # << >>
    /\ idx = 2
    /\ result = << <<"mu", "gwa_n">> >>

\* the selection text holds one of the four phrases somewhere
HoldsPhrase(sel) ==
    \/ Includes(sel, <<"mu", "gwa_n">>)
    \/ Includes(sel, <<"mo", "deu_n", " ", "gye", "yeo_l">>)
    \/ Includes(sel, <<"mo", "deu_n", " ", "ha_g", "gwa">>)
    \/ Includes(sel, <<"mo", "deu_n", "gwa">>)

\* C8: for a selection text that holds one of the phrases anywhere,
\* parseMajors returns the one-element list of the sentinel, and handleMajors
\* on that text returns exactly that list too.
C8_NoConstraintPhrase ==
    (mpc # "idle" /\ selection # << >> /\ HoldsPhrase(selection)) =>
       /\ inputs = << <<"mu", "gwa_n">> >>
       /\ Done => result = << <<"mu", "gwa_n">> >>

\* a phrase other than the sentinel, inside a longer text
C8_Witness ==
    /\ Done
    /\ Includes(selection, <<"mo", "deu_n", "gwa">>)
    /\ ~Includes(selection, <<"mu", "gwa_n">>)
    /\ Len(selection) > 3
    /\ result = << <<"mu", "gwa_n">> >>

\* C9 as stated, with the distance measured on the token the caller passed:
\* a single token that reaches the tiers, is matched by none of them and is
\* exactly one edit away from the name without suffix of a major, the first
\* such major being M, gives a result that contains M.
C9_NearTokenResolved ==
    ( /\ Done
      /\ selection = << >>
      /\ Len(inputs) = 1
      /\ flatInputs # << >>
      /\ NoSentinel
      /\ \A i \in 1..Len(flatInputs) : ~TierFound(flatInputs[i])
      /\ NearMajors(inputs[1]) # {} )
    => InResult(FirstNear(inputs[1]))

\* C9, amended: the distance is measured on the atomic input, that is on the
\* token after the pre-pass.  In a call without sentinel, every atomic input
\* that is matched by none of tiers 2 to 5 and is exactly one edit away from
\* the name without suffix of a major, the first such major in declaration
\* order being M, leaves M in the result.
C9_NearInputResolved ==
    (Done /\ NoSentinel) =>
       \A i \in 1..Len(flatInputs) :
          (~TierFound(flatInputs[i]) /\ NearMajors(flatInputs[i]) # {})
             => InResult(FirstNear(flatInputs[i]))

\* an atomic input no tier matches, one edit away from several majors, and
\* resolved to the first of them
C9_Witness ==
    /\ Done
    /\ Len(flatInputs) = 1
    /\ ~TierFound(flatInputs[1])
    /\ Cardinality(NearMajors(flatInputs[1])) >= 2
    /\ result = <<FirstNear(flatInputs[1])>>

-----------------------------------------------------------------------------
(* Field parsers: values, errors and regular-expression helpers *)

\* the value `undefined`
undefined == <<"undefined">>

\* An object is the sequence of its properties, in insertion order.
EmptyObject == << >>

\* key in obj
Has(obj, key) == \E n \in 1..Len(obj) : obj[n].key = key

\* obj[key], for a key of obj
Get(obj, key) == obj[CHOOSE n \in 1..Len(obj) : obj[n].key = key].value

\* obj[key] = v: a property that is there keeps its place
Put(obj, key, v) ==
    IF Has(obj, key)
    THEN LET n == CHOOSE n \in 1..Len(obj) : obj[n].key = key
         IN  SubSeq(obj, 1, n - 1) \o <<[key |-> key, value |-> v]>>
                \o SubSeq(obj, n + 1, Len(obj))
    ELSE Append(obj, [key |-> key, value |-> v])

\* a call that returned v
Returns(v) == [kind |-> "returned", value |-> v]

\* a call that threw an error of the given constructor
Throws(type, message) == [kind |-> type, value |-> message]

\* the match of a regular expression without the g flag: the match at the
\* leftmost position where At finds one, << >> (null) when there is none
FirstMatch(s, At(_, _)) ==
    LET hits == {i \in 1..Len(s) : At(s, i) # << >>}
    IN  IF hits = {} THEN << >>
        ELSE At(s, CHOOSE i \in hits : \A j \in hits : i <= j)

\* (\d{1,2}) followed by the character c, at position i: the number of digits
\* captured, 0 when it fails.  Two digits are tried before one; the
\* character after the capture is not a digit, so at most one length fits.
DigitsBefore(s, i, c) ==
    IF DigitRun(s, i) >= 2 /\ i + 2 <= Len(s) /\ s[i + 2] = c THEN 2
    ELSE IF DigitRun(s, i) >= 1 /\ i + 1 <= Len(s) /\ s[i + 1] = c THEN 1
    ELSE 0

\* /(\d{1,2})si\s*(\d{1,2})bu_n/ followed by the literal tail, at position i:
\* the two captures, << >> when it fails
HourMinuteAt(s, i, tail) ==
    LET n == DigitsBefore(s, i, "si")
        j == SkipSpaces(s, i + n + 1)
        m == IF n = 0 THEN 0 ELSE DigitsBefore(s, j, "bu_n")
    IN  IF n # 0 /\ m # 0 /\ OccursAt(s, tail, j + m + 1)
        THEN <<SubSeq(s, i, i + n - 1), SubSeq(s, j, j + m - 1)>>
        ELSE << >>

\* the capture left as it is
padStartKept(d) == d

\* String(d).padStart(2, "0") for a capture of one or two digits
padStart(d) == IF Len(d) < 2 THEN <<"0">> \o d ELSE d

-----------------------------------------------------------------------------
(* convertToISO8601 and handleWorkingHours *)

\* the conversion with an hour of two digits demanded
convertToISO8601TwoDigitHour(time) ==
    IF time = undefined
    THEN Throws("TypeError", <<"Cannot read properties of undefined (reading 'match')">>)
    ELSE LET m == FirstMatch(time, LAMBDA s, i : HourMinuteAt(s, i, << >>))
         IN  IF m = << >> \/ Len(m[1]) < 2
             THEN Throws("Error", <<"Invalid time format: ">> \o time)
             ELSE Returns(padStart(m[1]) \o <<":">> \o padStart(m[2]))

\* time.match(...) on undefined is a TypeError; no match is the Error the
\* function throws itself
convertToISO8601(time) ==
    IF time = undefined
    THEN Throws("TypeError", <<"Cannot read properties of undefined (reading 'match')">>)
    ELSE LET m == FirstMatch(time, LAMBDA s, i : HourMinuteAt(s, i, << >>))
         IN  IF m = << >>
             THEN Throws("Error", <<"Invalid time format: ">> \o time)
             ELSE Returns(padStart(m[1]) \o <<":">> \o padStart(m[2]))

\* const [start, end] = value.split("~").map((time) => time.trim())
WorkingHoursStart(value) == Trim(SplitOn(value, "~")[1])

WorkingHoursEnd(value) ==
    LET parts == SplitOn(value, "~")
    IN  IF Len(parts) >= 2 THEN Trim(parts[2]) ELSE undefined

\* the data object with nothing written to it
WorkingHoursUnwritten(value, obj) == obj

\* the data object as a call that throws leaves it: `data["workStartHour"]` is
\* assigned before the end is converted
WorkingHoursWritten(value, obj) ==
    LET workStartHour == convertToISO8601(WorkingHoursStart(value))
    IN  IF workStartHour.kind = "returned"
        THEN Put(obj, "workStartHour", workStartHour.value)
        ELSE obj

\* the data object after the call, or the error that escaped
handleWorkingHours(value, obj) ==
    LET workStartHour == convertToISO8601(WorkingHoursStart(value))
        workEndHour == convertToISO8601(WorkingHoursEnd(value))
    IN  IF workStartHour.kind # "returned" THEN workStartHour
        ELSE IF workEndHour.kind # "returned" THEN workEndHour
        ELSE Returns(Put(Put(obj, "workStartHour", workStartHour.value),
                         "workEndHour", workEndHour.value))

-----------------------------------------------------------------------------
(* normalizeDeadlineTime *)

\* /(\d{1,2})si kka ji/ at position i
HourTillAt(s, i) ==
    LET n == DigitsBefore(s, i, "si")
    IN  IF n # 0 /\ OccursAt(s, <<"kka", "ji">>, i + n + 1)
        THEN <<SubSeq(s, i, i + n - 1)>>
        ELSE << >>

\* /(\d{1,2}):(\d{1,2})kka ji/ at position i
ColonTimeTillAt(s, i) ==
    LET n == DigitsBefore(s, i, ":")
        j == i + n + 1
        m == IF n = 0 THEN 0 ELSE DigitsBefore(s, j, "kka")
    IN  IF n # 0 /\ m # 0 /\ OccursAt(s, <<"kka", "ji">>, j + m)
        THEN <<SubSeq(s, i, i + n - 1), SubSeq(s, j, j + m - 1)>>
        ELSE << >>

\* the sentinel "24:00"
EndOfDay == <<"2", "4", ":", "0", "0">>

\* the three patterns are tried in the order of the array; the first that
\* matches formats its captures
normalizeDeadlineTime(time) ==
    LET m1 == FirstMatch(time, HourTillAt)
        m2 == FirstMatch(time, LAMBDA s, i : HourMinuteAt(s, i, <<"kka", "ji">>))
        m3 == FirstMatch(time, ColonTimeTillAt)
    IN  IF time = << >> THEN EndOfDay
        ELSE IF m1 # << >> THEN padStart(m1[1]) \o <<":", "0", "0">>
        ELSE IF m2 # << >> THEN padStart(m2[1]) \o <<":">> \o padStart(m2[2])
        ELSE IF m3 # << >> THEN padStart(m3[1]) \o <<":">> \o padStart(m3[2])
        ELSE EndOfDay

-----------------------------------------------------------------------------
(* Numbers *)

\* a number is NaN or an integer of the model
NaN == [isNaN |-> TRUE, int |-> 0]

Num(n) == [isNaN |-> FALSE, int |-> n]

DigitValue(c) ==
    CASE c = "0" -> 0 [] c = "1" -> 1 [] c = "2" -> 2 [] c = "3" -> 3
      [] c = "4" -> 4 [] c = "5" -> 5 [] c = "6" -> 6 [] c = "7" -> 7
      [] c = "8" -> 8 [] c = "9" -> 9

\* the integer a run of decimal digits denotes
RECURSIVE DecimalValue(_)
DecimalValue(d) ==
    IF d = << >> THEN 0
    ELSE 10 * DecimalValue(SubSeq(d, 1, Len(d) - 1)) + DigitValue(d[Len(d)])

\* parseInt(s, 10): leading white space, a sign, then the longest run of
\* digits; what follows the run is ignored; NaN when there is no digit
parseInt(s) ==
    LET a == SkipSpaces(s, 1)
        signed == a <= Len(s) /\ s[a] \in {"+", "-"}
        b == IF signed THEN a + 1 ELSE a
        n == DigitRun(s, b)
        v == DecimalValue(SubSeq(s, b, b + n - 1))
    IN  IF n = 0 THEN NaN
        ELSE IF signed /\ s[a] = "-" THEN Num(0 - v) ELSE Num(v)

-----------------------------------------------------------------------------
(* parseSelectionInfo *)

\* all grade levels
AllGrades == <<1, 2, 3, 4>>

\* \d+(?:,\d+)* from position i: the position after it, 0 when there is no
\* digit at i.  Each \d+ takes its whole run: what follows it in the
\* pattern is no digit.
RECURSIVE GradeRunEnd(_, _)
GradeRunEnd(s, i) ==
    LET n == DigitRun(s, i)
        j == i + n
    IN  IF i > Len(s) \/ n = 0 THEN 0
        ELSE IF j < Len(s) /\ s[j] = "," /\ DigitRun(s, j + 1) > 0
             THEN GradeRunEnd(s, j + 1)
        ELSE j

\* /(\d+ha_g nyeo_n)/ at position i: a pattern without the comma groups
GradeMatchAtOneNumber(s, i) ==
    LET n == DigitRun(s, i)
    IN  IF n > 0 /\ OccursAt(s, <<"ha_g", "nyeo_n">>, i + n)
        THEN SubSeq(s, i, i + n - 1)
        ELSE << >>

\* /(\d+(?:,\d+)*ha_g nyeo_n)/ at position i: the capture without its
\* suffix, << >> when it fails
GradeMatchAt(s, i) ==
    LET j == GradeRunEnd(s, i)
    IN  IF j # 0 /\ OccursAt(s, <<"ha_g", "nyeo_n">>, j)
        THEN SubSeq(s, i, j - 1)
        ELSE << >>

\* .split(',').map(Number) on digits and commas
RECURSIVE MapNumber(_)
MapNumber(parts) ==
    IF parts = << >> THEN << >>
    ELSE <<DecimalValue(parts[1])>> \o MapNumber(Tail(parts))

parseSelectionInfo(selectionInfo) ==
    LET gradeMatch == FirstMatch(selectionInfo, GradeMatchAt)
    IN  IF Includes(selectionInfo, <<"mu", "gwa_n">>) THEN AllGrades
        ELSE IF gradeMatch = << >> THEN << >>
        ELSE MapNumber(SplitOn(gradeMatch, ","))

-----------------------------------------------------------------------------
(* cleanCurrency *)

Periods == {"wo_l", "ju"}

\* number of characters of [\d,] in a row from position i
RECURSIVE AmountRun(_, _)
AmountRun(s, i) ==
    IF i <= Len(s) /\ (IsDigit(s[i]) \/ s[i] = ",")
    THEN 1 + AmountRun(s, i + 1) ELSE 0

\* s.replace(/,/g, "")
RECURSIVE RemoveCommas(_)
RemoveCommas(s) ==
    IF s = << >> THEN << >>
    ELSE IF s[1] = "," THEN RemoveCommas(Tail(s))
    ELSE <<s[1]>> \o RemoveCommas(Tail(s))

\* /^(wo_l|ju)?\s*([\d,]+)\s*wo_n$/: the two captures, << >> (null) when the
\* value does not match; a period that is left out is captured as undefined
CurrencyMatch(value) ==
    LET given == value # << >> /\ value[1] \in Periods
        a == SkipSpaces(value, IF given THEN 2 ELSE 1)
        n == AmountRun(value, a)
        b == SkipSpaces(value, a + n)
    IN  IF n >= 1 /\ b = Len(value) /\ value[b] = "wo_n"
        THEN <<IF given THEN <<value[1]>> ELSE undefined, SubSeq(value, a, a + n - 1)>>
        ELSE << >>

cleanCurrency(value) ==
    LET m == CurrencyMatch(value)
    IN  IF m # << >>
        THEN [period |-> IF m[1] = undefined THEN <<"wo_l">> ELSE m[1],
              amount |-> parseInt(RemoveCommas(m[2]))]
        ELSE [period |-> <<"wo_l">>, amount |-> Num(0)]

-----------------------------------------------------------------------------
(* Section extractors: parseQualifications, parseInternshipDetails,
   extractInterviewDetails *)

\* a marker is literal parts with \s* between them; the position after the
\* marker tried at position i, 0 when it fails
RECURSIVE PartsEnd(_, _, _)
PartsEnd(s, i, parts) ==
    IF ~OccursAt(s, parts[1], i) THEN 0
    ELSE IF Len(parts) = 1 THEN i + Len(parts[1])
    ELSE PartsEnd(s, SkipSpaces(s, i + Len(parts[1])), Tail(parts))

\* marker \s* : at position i: the position after the colon, 0 when it fails
ColonEnd(s, i, parts) ==
    LET e == PartsEnd(s, i, parts)
        j == SkipSpaces(s, e)
    IN  IF e # 0 /\ j <= Len(s) /\ s[j] = ":" THEN j + 1 ELSE 0

\* the first position at or after i where the lookahead (?=stop|$) holds;
\* an empty stop stands for (?=$)
RECURSIVE LookaheadFrom(_, _, _)
LookaheadFrom(s, i, stop) ==
    IF i > Len(s) \/ (stop # << >> /\ OccursAt(s, stop, i)) THEN i
    ELSE LookaheadFrom(s, i + 1, stop)

\* /marker\s*:\s*([\s\S]*?)(?=stop|$)/ at position i: <<capture>>, << >>
\* when it fails.  The \s* after the colon takes all the white space, and
\* the lazy capture then stops at the first position of the lookahead.
SectionAt(s, i, parts, stop) ==
    LET c == ColonEnd(s, i, parts)
        a == SkipSpaces(s, c)
    IN  IF c = 0 THEN << >>
        ELSE <<SubSeq(s, a, LookaheadFrom(s, a, stop) - 1)>>

\* number of characters outside the class in a row from position i
RECURSIVE ClassRun(_, _, _)
ClassRun(s, i, excluded) ==
    IF i <= Len(s) /\ s[i] \notin excluded
    THEN 1 + ClassRun(s, i + 1, excluded) ELSE 0

\* /marker\s*:\s*([^excluded]+)/ at position i: <<capture>>, << >> when it
\* fails.  The \s* after the colon first takes all the white space and gives
\* characters back until the class finds one to start on.
ClassAt(s, i, parts, excluded) ==
    LET c == ColonEnd(s, i, parts)
        b == SkipSpaces(s, c)
        starts == {q \in c..b : q <= Len(s) /\ s[q] \notin excluded}
        a == CHOOSE q \in starts : \A r \in starts : r <= q
    IN  IF c = 0 \/ starts = {} THEN << >>
        ELSE <<SubSeq(s, a, a + ClassRun(s, a, excluded) - 1)>>

\* `if (match && match[1]) result[key] = match[1].trim()`
PutSection(obj, key, m) ==
    IF m # << >> /\ m[1] # << >> THEN Put(obj, key, Trim(m[1])) ELSE obj

\* the patterns of parseQualifications, in the order of the object
QualificationPatterns ==
    << [key |-> "major", marker |-> << <<"jeo_n", "go_ng">> >>,
        stop |-> <<"*", "i_n", "wo_n">>],
       [key |-> "recruitCount", marker |-> << <<"i_n", "wo_n">> >>,
        stop |-> <<"*", "ha_g", "nyeo_n">>],
       [key |-> "grade", marker |-> << <<"ha_g", "nyeo_n">> >>,
        stop |-> <<"*", "ha_g", "jeo_m", "/", "pyeo_ng", "jeo_m">>],
       [key |-> "credit", marker |-> << <<"ha_g", "jeo_m", "/", "pyeo_ng", "jeo_m">> >>,
        stop |-> <<"*", "yo", "gu", " ", "yeo_g", "rya_ng">>],
       [key |-> "competence", marker |-> << <<"yo", "gu">>, <<"yeo_g", "rya_ng">> >>,
        stop |-> <<"*", "gi", "ta", "sa", "ha_ng">>],
       [key |-> "etc", marker |-> << <<"gi", "ta", "sa", "ha_ng">> >>,
        stop |-> << >>] >>

\* the patterns of parseInternshipDetails
InternshipPatterns ==
    << [key |-> "jobTitle", marker |-> << <<"*", "ji_g", "mu", "myeo_ng">> >>,
        stop |-> <<"\n", "*", "gyo", "yu_g", "mo_g", "pyo">>],
       [key |-> "goals", marker |-> << <<"*", "gyo", "yu_g", "mo_g", "pyo">> >>,
        stop |-> <<"\n", "*", "ji_g", "mu", " ", "gae", "yo">>],
       [key |-> "jobOverview", marker |-> << <<"*", "ji_g", "mu">>, <<"gae", "yo">> >>,
        stop |-> <<"\n", "*", "u_n", "yeo_ng", "/", " ", "ji", "do", " ", "gye", "hoe_g">>],
       [key |-> "operationGuidance",
        marker |-> << <<"*", "u_n", "yeo_ng", "/", " ", "ji", "do", " ", "gye", "hoe_g">> >>,
        stop |-> <<"\n", "*", "mo_g", "pyo", " ", "seo_ng", "gwa", "mu_l">>],
       [key |-> "targetOutcomes", marker |-> << <<"*", "mo_g", "pyo">>, <<"seo_ng", "gwa", "mu_l">> >>,
        stop |-> << >>] >>

\* the patterns of extractInterviewDetails
InterviewPatterns ==
    << [key |-> "interviewType",
        marker |-> << <<"myeo_n", "jeo_b", "yu", "hyeo_ng">> >>,
        excluded |-> {"\n"}],
       [key |-> "applicationSubmissionPeriod",
        marker |-> << <<"seo", "ryu">>, <<"jeo_b", "su">>, <<"gi", "ga_n">> >>,
        excluded |-> {"seo", "ryu", "ha_b", "gyeo_g", "ba_l", "pyo"}],
       [key |-> "applicationResultsAnnouncement",
        marker |-> << <<"seo", "ryu">>, <<"ha_b", "gyeo_g">>, <<"ba_l", "pyo">> >>,
        excluded |-> {"myeo_n", "jeo_b", "i_l"}],
       [key |-> "finalResultsAnnouncement",
        marker |-> << <<"choe", "jo_ng">>, <<"ha_b", "gyeo_g", "ba_l", "pyo">> >>,
        excluded |-> {"\n"}] >>

\* the loop over the patterns with a lookahead, from pattern n on
RECURSIVE SectionsFrom(_, _, _, _)
SectionsFrom(text, patterns, n, obj) ==
    IF n > Len(patterns) THEN obj
    ELSE LET p == patterns[n]
             m == FirstMatch(text, LAMBDA s, i : SectionAt(s, i, p.marker, p.stop))
         IN  SectionsFrom(text, patterns, n + 1, PutSection(obj, p.key, m))

\* the value of the major section is replaced by the token list
MajorParsed(obj) ==
    IF Has(obj, "major") THEN Put(obj, "major", parseMajors(Get(obj, "major"))) ELSE obj

parseQualifications(text) ==
    MajorParsed(SectionsFrom(text, QualificationPatterns, 1, EmptyObject))

parseInternshipDetails(details) ==
    SectionsFrom(details, InternshipPatterns, 1, EmptyObject)

\* input.replace(/\*/g, '')
RECURSIVE RemoveAsterisks(_)
RemoveAsterisks(s) ==
    IF s = << >> THEN << >>
    ELSE IF s[1] = "*" THEN RemoveAsterisks(Tail(s))
    ELSE <<s[1]>> \o RemoveAsterisks(Tail(s))

\* the loop over the patterns with a negated class, from pattern n on
RECURSIVE ClassSectionsFrom(_, _, _, _)
ClassSectionsFrom(text, patterns, n, obj) ==
    IF n > Len(patterns) THEN obj
    ELSE LET p == patterns[n]
             m == FirstMatch(text, LAMBDA s, i : ClassAt(s, i, p.marker, p.excluded))
         IN  ClassSectionsFrom(text, patterns, n + 1, PutSection(obj, p.key, m))

extractInterviewDetails(text) ==
    ClassSectionsFrom(RemoveAsterisks(text), InterviewPatterns, 1, EmptyObject)

-----------------------------------------------------------------------------
(* Field parsers: the texts they are called on *)

\* A text is made of at most this many pieces.
MaxText == 4

\* the texts made of at most MaxText of the given pieces
Texts(pieces) ==
    {Flatten(q) : q \in UNION {[1..n -> pieces] : n \in 0..MaxText}}

\* "9si 5bu_n", "10si30bu_n", an hour without minutes, the range separator
WorkingHoursTexts ==
    Texts({<<"9", "si", " ", "5", "bu_n">>, <<"1", "0", "si", "3", "0", "bu_n">>,
           <<"9", "si">>, <<"~">>, <<" ">>, <<"X">>})

DeadlineTexts ==
    Texts({<<"1">>, <<"9", "si">>, <<"5", "bu_n">>, <<"kka", "ji">>,
           <<"1", "0", ":", "3", "0">>, <<" ">>, <<"X">>})

SelectionTexts ==
    Texts({<<"1">>, <<"2", "ha_g", "nyeo_n">>, <<",">>, <<",", " ">>,
           <<"ha_g", "nyeo_n">>, <<"mu", "gwa_n">>, <<"0", "3">>})

CurrencyTexts ==
    Texts({<<"wo_l">>, <<"ju">>, <<" ">>, <<"1", "2">>, <<",">>, <<"wo_n">>, <<"X">>})

QualificationTexts ==
    Texts({<<"jeo_n", "go_ng", ":">>, <<"*", "i_n", "wo_n", ":">>,
           <<"*", "ha_g", "nyeo_n", " ", ":">>, <<"gi", "ta", "sa", "ha_ng", ":">>,
           <<" ">>, <<"X">>})

InternshipTexts ==
    Texts({<<"*", "ji_g", "mu", "myeo_ng", ":">>,
           <<"\n", "*", "gyo", "yu_g", "mo_g", "pyo", ":">>,
           <<"*", "mo_g", "pyo", " ", "seo_ng", "gwa", "mu_l", ":">>,
           <<"\n">>, <<" ">>, <<"X">>})

InterviewTexts ==
    Texts({<<"myeo_n", "jeo_b", "yu", "hyeo_ng", ":">>,
           <<"seo", "ryu", " ", "jeo_b", "su", "gi", "ga_n", ":">>,
           <<"*", "choe", "jo_ng", " ", "ha_b", "gyeo_g", "ba_l", "pyo", ":">>,
           <<"\n">>, <<" ">>, <<"X">>})

-----------------------------------------------------------------------------
(* Field parsers: the steps *)

\* the parser was applied to the text and did what `out` says
Applied(name, text, out) ==
    /\ fpc' = "done"
    /\ called' = name
    /\ argument' = text
    /\ outcome' = out
    /\ UNCHANGED <<dateVars, majorVars, handlerVars, postingVars, dynamoVars>>

CallHandleWorkingHours ==
    /\ fpc = "idle"
    /\ \E v \in WorkingHoursTexts :
          Applied("handleWorkingHours", v, handleWorkingHours(v, EmptyObject))

CallNormalizeDeadlineTime ==
    /\ fpc = "idle"
    /\ \E v \in DeadlineTexts :
          Applied("normalizeDeadlineTime", v, Returns(normalizeDeadlineTime(v)))

CallParseSelectionInfo ==
    /\ fpc = "idle"
    /\ \E v \in SelectionTexts :
          Applied("parseSelectionInfo", v, Returns(parseSelectionInfo(v)))

CallCleanCurrency ==
    /\ fpc = "idle"
    /\ \E v \in CurrencyTexts :
          Applied("cleanCurrency", v, Returns(cleanCurrency(v)))

CallParseQualifications ==
    /\ fpc = "idle"
    /\ \E v \in QualificationTexts :
          Applied("parseQualifications", v, Returns(parseQualifications(v)))

CallParseInternshipDetails ==
    /\ fpc = "idle"
    /\ \E v \in InternshipTexts :
          Applied("parseInternshipDetails", v, Returns(parseInternshipDetails(v)))

CallExtractInterviewDetails ==
    /\ fpc = "idle"
    /\ \E v \in InterviewTexts :
          Applied("extractInterviewDetails", v, Returns(extractInterviewDetails(v)))

\* the caller takes the outcome
FieldReturn ==
    /\ fpc = "done"
    /\ fpc' = "idle"
    /\ called' = ""
    /\ argument' = << >>
    /\ outcome' = << >>
    /\ UNCHANGED <<dateVars, majorVars, handlerVars, postingVars, dynamoVars>>

NextFields ==
    \/ CallHandleWorkingHours
    \/ CallNormalizeDeadlineTime
    \/ CallParseSelectionInfo
    \/ CallCleanCurrency
    \/ CallParseQualifications
    \/ CallParseInternshipDetails
    \/ CallExtractInterviewDetails
    \/ FieldReturn

SpecFields == Init /\ [][NextFields]_vars

-----------------------------------------------------------------------------
(* Field parsers: properties *)

\* the named parser has been applied and its outcome is there
FieldDone(name) == fpc = "done" /\ called = name

\* the characters a .. b of t are there and are all digits
AllDigits(t, a, b) == a >= 1 /\ b <= Len(t) /\ \A x \in a..b : IsDigit(t[x])

\* the characters a .. b of t are there and are all white space
AllSpaces(t, a, b) == a >= 1 /\ b <= Len(t) /\ \A x \in a..b : IsSpace(t[x])

\* t holds the phrase "H si M bu_n": one or two digits, si, optional white
\* space, one or two digits, bu_n
TimePhraseIn(t) ==
    \E i \in 1..Len(t), n \in 1..2, w \in 0..Len(t), m \in 1..2 :
       LET j == i + n + 1 + w
       IN  /\ j + m <= Len(t)
           /\ AllDigits(t, i, i + n - 1)
           /\ t[i + n] = "si"
           /\ AllSpaces(t, i + n + 1, j - 1)
           /\ AllDigits(t, j, j + m - 1)
           /\ t[j + m] = "bu_n"

\* an endpoint of the working-hours value is missing or lacks the phrase
MalformedHours(v) ==
    LET parts == SplitOn(v, "~")
    IN  \/ Len(parts) < 2
        \/ ~TimePhraseIn(parts[1])
        \/ ~TimePhraseIn(parts[2])

\* C12: handleWorkingHours on a value of which an endpoint is missing or
\* lacks the phrase "H si M bu_n" throws the Error "Invalid time format: ..."
\* and no error of another kind.
C12_InvalidTimeFormat ==
    (FieldDone("handleWorkingHours") /\ MalformedHours(argument)) =>
       /\ outcome.kind = "Error"
       /\ outcome.value[1] = "Invalid time format: "

Extractors == {"parseQualifications", "parseInternshipDetails", "extractInterviewDetails"}

\* the markers of the extractor's patterns, in order
MarkersOf(name) ==
    CASE name = "parseQualifications" ->
           [n \in 1..Len(QualificationPatterns) |-> QualificationPatterns[n]]
      [] name = "parseInternshipDetails" ->
           [n \in 1..Len(InternshipPatterns) |-> InternshipPatterns[n]]
      [] name = "extractInterviewDetails" ->
           [n \in 1..Len(InterviewPatterns) |-> InterviewPatterns[n]]

\* the positions of the text where the marker stands
MarkerPositions(text, parts) ==
    {i \in 1..Len(text) : PartsEnd(text, i, parts) # 0}

\* C15: a section map returned by a section extractor holds no empty string,
\* and it has no key for a section whose marker is absent from the text.
C15_NoEmptySection ==
    (fpc = "done" /\ called \in Extractors) =>
       /\ \A n \in 1..Len(outcome.value) :
             (outcome.value[n].key # "major") => outcome.value[n].value # << >>
       /\ \A n \in 1..Len(MarkersOf(called)) :
             MarkerPositions(argument, MarkersOf(called)[n].marker) = {}
                => ~Has(outcome.value, MarkersOf(called)[n].key)

\* every marker of parseQualifications stands at most once in the text, and
\* those that are present stand in the order of the patterns
MarkersInOrder(text) ==
    /\ \A n \in 1..Len(QualificationPatterns) :
          Cardinality(MarkerPositions(text, QualificationPatterns[n].marker)) <= 1
    /\ \A a, b \in 1..Len(QualificationPatterns) :
          a < b =>
             \A i \in MarkerPositions(text, QualificationPatterns[a].marker),
                j \in MarkerPositions(text, QualificationPatterns[b].marker) : i < j

\* the text of a section of the result; the major section is a token list
SectionText(obj, key) ==
    IF key = "major" THEN Flatten(Get(obj, key)) ELSE Get(obj, key)

\* C16: in parseQualifications, on a block whose markers stand in document
\* order (any subset of them present), no extracted section holds the marker
\* of a later section that is present in the block.
C16_SectionEndsBeforeNext ==
    (FieldDone("parseQualifications") /\ MarkersInOrder(argument)) =>
       \A a, b \in 1..Len(QualificationPatterns) :
          (/\ a < b
           /\ Has(outcome.value, QualificationPatterns[a].key)
           /\ MarkerPositions(argument, QualificationPatterns[b].marker) # {})
          => ~Includes(SectionText(outcome.value, QualificationPatterns[a].key),
                       Flatten(QualificationPatterns[b].marker))

\* t is digits(,digits)*
IsGradeList(t) ==
    /\ t # << >>
    /\ IsDigit(t[1])
    /\ IsDigit(t[Len(t)])
    /\ \A x \in 1..Len(t) : IsDigit(t[x]) \/ t[x] = ","
    /\ \A x \in 1..(Len(t) - 1) : ~(t[x] = "," /\ t[x + 1] = ",")

\* the runs of comma-separated digits directly followed by "ha_g nyeo_n"
GradeRuns(s) ==
    {p \in (1..Len(s)) \X (1..Len(s)) :
        /\ p[1] <= p[2]
        /\ IsGradeList(SubSeq(s, p[1], p[2]))
        /\ OccursAt(s, <<"ha_g", "nyeo_n">>, p[2] + 1)}

\* the first of them
FirstGradeRun(s) ==
    LET p == CHOOSE p \in GradeRuns(s) : \A q \in GradeRuns(s) : p[1] <= q[1]
    IN  SubSeq(s, p[1], p[2])

SuffixedGrades(s) ==
    {DecimalValue(SubSeq(s, p[1], p[2])) :
        p \in {q \in (1..Len(s)) \X (1..Len(s)) :
                 /\ q[1] <= q[2]
                 /\ AllDigits(s, q[1], q[2])
                 /\ (q[1] = 1 \/ ~IsDigit(s[q[1] - 1]))
                 /\ OccursAt(s, <<"ha_g", "nyeo_n">>, q[2] + 1)}}

\* C18: when the text names several grades, each with its own "ha_g nyeo_n"
\* suffix, and does not contain "mu gwa_n", parseSelectionInfo returns the
\* numbers of all the grades named.
C18_EachSuffixedGrade ==
    (/\ FieldDone("parseSelectionInfo")
     /\ ~Includes(argument, <<"mu", "gwa_n">>)
     /\ Cardinality(SuffixedGrades(argument)) >= 2)
    => \A g \in SuffixedGrades(argument) :
          \E n \in 1..Len(outcome.value) : outcome.value[n] = g

\* the value is, as a whole, an optional period (g = 1 when given), a run of
\* digits and commas at a .. b, and "wo_n", with optional white space between
CurrencyShape(v, g, a, b) ==
    /\ a <= b
    /\ b < Len(v)
    /\ g = 1 => v[1] \in Periods
    /\ \A x \in (g + 1)..(a - 1) : IsSpace(v[x])
    /\ \A x \in a..b : IsDigit(v[x]) \/ v[x] = ","
    /\ \A x \in (b + 1)..(Len(v) - 1) : IsSpace(v[x])
    /\ v[Len(v)] = "wo_n"

CurrencyShapes(v) ==
    {p \in (0..1) \X (1..Len(v)) \X (1..Len(v)) : CurrencyShape(v, p[1], p[2], p[3])}

\* C19: cleanCurrency returns a period among the two and an amount that is a
\* non-negative integer; for a value of the shape, the period given ("wo_l"
\* when left out) and the integer the run denotes once its commas are
\* removed; for every other value, period "wo_l" and amount 0.
C19_PeriodAndAmount ==
    FieldDone("cleanCurrency") =>
       /\ outcome.value.period \in {<<"wo_l">>, <<"ju">>}
       /\ ~outcome.value.amount.isNaN
       /\ outcome.value.amount.int >= 0
       /\ \A p \in CurrencyShapes(argument) :
             /\ outcome.value.period =
                   IF p[1] = 1 THEN <<argument[1]>> ELSE <<"wo_l">>
             /\ outcome.value.amount.int =
                   DecimalValue(RemoveCommas(SubSeq(argument, p[2], p[3])))
       /\ CurrencyShapes(argument) = {} =>
             outcome.value = [period |-> <<"wo_l">>, amount |-> Num(0)]

\* d, of one or two digits, written with two
TwoWide(d) == IF Len(d) = 1 THEN <<"0", d[1]>> ELSE d

\* t is two digits, a colon, two digits
IsHHMM(t) ==
    /\ Len(t) = 5
    /\ IsDigit(t[1]) /\ IsDigit(t[2]) /\ t[3] = ":" /\ IsDigit(t[4]) /\ IsDigit(t[5])

\* what the phrases "H si kka ji" of the text read as
HourTillReadings(s) ==
    {TwoWide(SubSeq(s, p[1], p[1] + p[2] - 1)) \o <<":", "0", "0">> :
        p \in {q \in (1..Len(s)) \X (1..2) :
                 /\ AllDigits(s, q[1], q[1] + q[2] - 1)
                 /\ OccursAt(s, <<"si", "kka", "ji">>, q[1] + q[2])}}

\* what the phrases "H si M bu_n kka ji" of the text read as
HourMinuteTillReadings(s) ==
    {TwoWide(SubSeq(s, p[1], p[1] + p[2] - 1)) \o <<":">>
        \o TwoWide(SubSeq(s, p[1] + p[2] + 1 + p[3], p[1] + p[2] + p[3] + p[4])) :
        p \in {q \in (1..Len(s)) \X (1..2) \X (0..Len(s)) \X (1..2) :
                 /\ AllDigits(s, q[1], q[1] + q[2] - 1)
                 /\ OccursAt(s, <<"si">>, q[1] + q[2])
                 /\ AllSpaces(s, q[1] + q[2] + 1, q[1] + q[2] + q[3])
                 /\ AllDigits(s, q[1] + q[2] + 1 + q[3], q[1] + q[2] + q[3] + q[4])
                 /\ OccursAt(s, <<"bu_n", "kka", "ji">>, q[1] + q[2] + q[3] + q[4] + 1)}}

\* what the phrases "H:M kka ji" of the text read as
ColonTillReadings(s) ==
    {TwoWide(SubSeq(s, p[1], p[1] + p[2] - 1)) \o <<":">>
        \o TwoWide(SubSeq(s, p[1] + p[2] + 1, p[1] + p[2] + p[3])) :
        p \in {q \in (1..Len(s)) \X (1..2) \X (1..2) :
                 /\ AllDigits(s, q[1], q[1] + q[2] - 1)
                 /\ OccursAt(s, <<":">>, q[1] + q[2])
                 /\ AllDigits(s, q[1] + q[2] + 1, q[1] + q[2] + q[3])
                 /\ OccursAt(s, <<"kka", "ji">>, q[1] + q[2] + q[3] + 1)}}

\* C20: normalizeDeadlineTime does not throw on a string and returns a
\* zero-padded HH:MM: "HH:00" read from a phrase "H si kka ji" of the text;
\* failing that, "HH:MM" read from a phrase "H si M bu_n kka ji", then from
\* a phrase "H:M kka ji"; and "24:00" for the empty string and for a text
\* with none of the three phrases.
C20_DeadlineTime ==
    FieldDone("normalizeDeadlineTime") =>
       /\ outcome.kind = "returned"
       /\ IsHHMM(outcome.value)
       /\ IF HourTillReadings(argument) # {}
          THEN outcome.value \in HourTillReadings(argument)
          ELSE IF HourMinuteTillReadings(argument) # {}
          THEN outcome.value \in HourMinuteTillReadings(argument)
          ELSE IF ColonTillReadings(argument) # {}
          THEN outcome.value \in ColonTillReadings(argument)
          ELSE outcome.value = <<"2", "4", ":", "0", "0">>

\* a phrase with a one-digit hour and a one-digit minute was padded
C20_Witness ==
    /\ FieldDone("normalizeDeadlineTime")
    /\ Includes(argument, <<"9", "si", " ", "5", "bu_n", "kka", "ji">>)
    /\ outcome.value = <<"0", "9", ":", "0", "5">>

-----------------------------------------------------------------------------
(* transformData: the remaining handlers *)

\* const [start, end] = period.split("~").map((v) => v.trim())
parseInternshipPeriod(period) ==
    LET parts == SplitOn(period, "~")
    IN  <<[key |-> "startDate", value |-> Trim(parts[1])],
          [key |-> "endDate",
           value |-> IF Len(parts) >= 2 THEN Trim(parts[2]) ELSE undefined]>>

\* Object.assign(target, source)
RECURSIVE Assign(_, _)
Assign(target, source) ==
    IF source = << >> THEN target
    ELSE Assign(Put(target, source[1].key, source[1].value), Tail(source))

parseStatus(status) == Trim(status) # <<"jeo_b", "su", "ma", "ga_m">>

parseWorkingDays(value) == SplitOn(value, " ")

cleanGenericValue(value) == Trim(value)

\* transformedData['interviewInfo'] = standardizeDates(extractedValue); the
\* date normalizer rewrites the values in insertion order
handleInterviewInfo(obj, value) ==
    LET extractedValue == extractInterviewDetails(value)
        dates == standardizeDates([n \in 1..Len(extractedValue) |-> extractedValue[n].value])
    IN  Put(obj, "interviewInfo",
            [n \in 1..Len(extractedValue) |->
                [key |-> extractedValue[n].key, value |-> dates[n]]])

\* the majors are taken from the qualifications only when a "majors" array
\* is there already and is empty
handleQualifications(obj, value) ==
    LET qualifications == parseQualifications(value)
        stored == Put(obj, "qualifications", qualifications)
    IN  IF /\ Has(stored, "majors")
           /\ Get(stored, "majors") = << >>
           /\ Has(qualifications, "major")
        THEN Put(stored, "majors", findRelatedMajor(Get(qualifications, "major")))
        ELSE stored

EXCLUDE_KEYS ==
    {"number", "targetMajors", "contactDepartment", "progressStatus",
     "additionalRecruitmentInfo"}

INVALID_VALUES == {<< >>, <<"-">>}

\* the keys of the crawler, each written as one string, and the keys they
\* are renamed to
KEY_MAPPING ==
    << <<"beo_n-ho", "number">>,
       <<"si_l-seu_b-gi-gwa_n-bu_n-ryu", "organizationType">>,
       <<"si_l-seu_b-gi-gwa_n-myeo_ng", "organizationName">>,
       <<"bu-seo", "department">>,
       <<"si_l-seu_b-gi-gwa_n- -ji_n-hae_ng-sa_ng-tae", "status">>,
       <<"si_n-gyu-mo-ji_b", "newRecruitment">>,
       <<"ho_m-pe-i-ji", "homepage">>,
       <<"so-jae-ji", "location">>,
       <<"mo-ji_b-ma-ga_m-i_l", "applicationDeadline">>,
       <<"ma-ga_m-si-ga_n", "deadlineTime">>,
       <<"si_l-seu_b-gi-ga_n", "internshipPeriod">>,
       <<"gi-gwa_n-ji-wo_n-geu_m", "organizationSupportAmount">>,
       <<"yu-hyeo_ng", "type">>,
       <<"mo-ji_b-jeo_n-go_ng", "majors">>,
       <<"mo-ji_b-i_n-wo_n", "recruitCount">>,
       <<"ji-wo_n-i_n-wo_n", "applicantCount">>,
       <<"si_l-seu_b-si_n-cheo_ng", "internshipApplication">>,
       <<"id", "id">>,
       <<"hyeo_n-ja_ng-si_l-seu_b-myeo_ng", "internshipName">>,
       <<"ji_g-wo_n-su", "employeeCount">>,
       <<"gi-gwa_n-gyu-mo", "organizationSize">>,
       <<"sa_ng-ja_ng-yeo-bu", "isListed">>,
       <<"si_l-seu_b-gi-gwa_n-so-gae", "organizationDescription">>,
       <<"seo_n-ba_l-dae-sa_ng", "targetMajors">>,
       <<"so-gae-ja-ryo", "introductionMaterials">>,
       <<"hyeo_n-ja_ng-si_l-seu_b- -ji-wo_n-se_n-teo-ko-me_n-teu", "comments">>,
       <<"seo_n-ba_l-jeo_ng-bo", "selectionInfo">>,
       <<"ja-gyeo_g-sa-ha_ng", "qualifications">>,
       <<"si_l-seu_b-nae-yo_ng", "internshipDetails">>,
       <<"myeo_n-jeo_b-jeo_ng-bo", "interviewInfo">>,
       <<"geu_n-mu-si-ga_n", "workingHours">>,
       <<"geu_n-mu-yo-i_l", "workingDays">>,
       <<"ji-do-gyo-su", "advisor">>,
       <<"mo-ji_b-go_ng-go- -chu-ga-ja-ryo", "additionalRecruitmentInfo">>,
       <<"ji_n-hae_ng-sa_ng-tae", "progressStatus">> >>

\* KEY_MAPPING[key] || key
NewKey(key) ==
    IF \E n \in 1..Len(KEY_MAPPING) : KEY_MAPPING[n][1] = key
    THEN KEY_MAPPING[CHOOSE n \in 1..Len(KEY_MAPPING) : KEY_MAPPING[n][1] = key][2]
    ELSE key

\* only the values that are not valid are passed over
SkippedForValue(e) == e.value \in INVALID_VALUES

\* `if (EXCLUDE_KEYS.includes(newKey) || INVALID_VALUES.includes(value)) continue`
Skipped(e) == NewKey(e.key) \in EXCLUDE_KEYS \/ e.value \in INVALID_VALUES

-----------------------------------------------------------------------------
(* transformData: the postings *)

\* A posting has at most this many fields.
MaxFields == 2

Field(key, value) == [key |-> key, value |-> value]

\* the fields a posting is made of
Fields ==
    {Field("mo-ji_b-jeo_n-go_ng", <<"-">>),
     Field("mo-ji_b-jeo_n-go_ng", <<"X", "X">>),
     Field("mo-ji_b-jeo_n-go_ng", <<"ga_n", "ho", "ha_g", "gwa">>),
     Field("ja-gyeo_g-sa-ha_ng", <<"jeo_n", "go_ng", ":", " ", "ga_n", "ho", "ha_g", "gwa">>),
     Field("ja-gyeo_g-sa-ha_ng", <<"i_n", "wo_n", ":", " ", "2">>),
     Field("geu_n-mu-si-ga_n", <<"9", "si", " ", "5", "bu_n", "~", "1", "0", "si", "3", "0", "bu_n">>),
     Field("geu_n-mu-si-ga_n", <<"9", "si", " ", "5", "bu_n">>),
     Field("geu_n-mu-si-ga_n", <<"X", "~", "9", "si", " ", "5", "bu_n">>),
     Field("ma-ga_m-si-ga_n", <<"X">>),
     Field("si_l-seu_b-gi-ga_n", <<"2", "3", ".", "0", "3", ".", "0", "4">>),
     Field("si_l-seu_b-nae-yo_ng", <<"*", "ji_g", "mu", "myeo_ng", ":", "X">>),
     Field("myeo_n-jeo_b-jeo_ng-bo", <<"myeo_n", "jeo_b", "yu", "hyeo_ng", ":", " ", "X">>),
     Field("gi-gwa_n-ji-wo_n-geu_m", <<"X">>),
     Field("si_l-seu_b-gi-gwa_n- -ji_n-hae_ng-sa_ng-tae", <<"jeo_b", "su", "ma", "ga_m">>),
     Field("geu_n-mu-yo-i_l", <<"wo_l", " ", "hwa">>),
     Field("seo_n-ba_l-jeo_ng-bo", <<"X">>),
     Field("beo_n-ho", <<"1">>),
     Field("so-jae-ji", << >>),
     Field("memo", <<" ", "X">>)}

\* the postings: at most MaxFields fields, no key twice, in any order
Postings ==
    {p \in UNION {[1..n -> Fields] : n \in 0..MaxFields} :
        \A a, b \in 1..Len(p) : a # b => p[a].key # p[b].key}

-----------------------------------------------------------------------------
(* transformData: the steps *)

CallTransformData ==
    /\ tpc = "idle"
    /\ \E p \in Postings : posting' = p
    /\ tpc' = "loop"
    /\ pos' = 1
    /\ transformedData' = EmptyObject
    /\ thrown' = ""
    /\ UNCHANGED <<dateVars, majorVars, handlerVars, fieldVars, dynamoVars>>

\* the loop is at an entry that is not skipped and whose new key is `key`
AtCase(key) ==
    /\ tpc = "loop"
    /\ pos <= Len(posting)
    /\ ~Skipped(posting[pos])
    /\ NewKey(posting[pos].key) = key

\* the case stored its result and the loop goes on
Stored(obj) ==
    /\ transformedData' = obj
    /\ pos' = pos + 1
    /\ UNCHANGED <<tpc, posting, thrown, dateVars, majorVars, handlerVars, fieldVars, dynamoVars>>

SkipEntry ==
    /\ tpc = "loop"
    /\ pos <= Len(posting)
    /\ Skipped(posting[pos])
    /\ pos' = pos + 1
    /\ UNCHANGED <<tpc, posting, transformedData, thrown,
                   dateVars, majorVars, handlerVars, fieldVars, dynamoVars>>

CaseDeadlineTime ==
    /\ AtCase("deadlineTime")
    /\ Stored(Put(transformedData, "deadlineTime",
                  normalizeDeadlineTime(posting[pos].value)))

CaseMajors ==
    /\ AtCase("majors")
    /\ Stored(Put(transformedData, "majors", handleMajors(posting[pos].value)))

CaseQualifications ==
    /\ AtCase("qualifications")
    /\ Stored(handleQualifications(transformedData, posting[pos].value))

CaseInternshipPeriod ==
    /\ AtCase("internshipPeriod")
    /\ Stored(Assign(transformedData, parseInternshipPeriod(posting[pos].value)))

CaseInternshipDetails ==
    /\ AtCase("internshipDetails")
    /\ Stored(Put(transformedData, "internshipDetails",
                  parseInternshipDetails(posting[pos].value)))

CaseInterviewInfo ==
    /\ AtCase("interviewInfo")
    /\ Stored(handleInterviewInfo(transformedData, posting[pos].value))

CaseOrganizationSupportAmount ==
    /\ AtCase("organizationSupportAmount")
    /\ Stored(Put(transformedData, "organizationSupportAmount",
                  cleanCurrency(posting[pos].value)))

CaseStatus ==
    /\ AtCase("status")
    /\ Stored(Put(transformedData, "status", parseStatus(posting[pos].value)))

\* the error handleWorkingHours throws escapes transformData
CaseWorkingHours ==
    /\ AtCase("workingHours")
    /\ LET r == handleWorkingHours(posting[pos].value, transformedData)
       IN  IF r.kind = "returned"
           THEN Stored(r.value)
           ELSE /\ tpc' = "raised"
                /\ thrown' = r.kind
                /\ transformedData' =
                      WorkingHoursWritten(posting[pos].value, transformedData)
                /\ UNCHANGED <<posting, pos,
                               dateVars, majorVars, handlerVars, fieldVars, dynamoVars>>

CaseWorkingDays ==
    /\ AtCase("workingDays")
    /\ Stored(Put(transformedData, "workingDays", parseWorkingDays(posting[pos].value)))

CaseSelectionInfo ==
    /\ AtCase("selectionInfo")
    /\ Stored(Put(transformedData, "selectionInfo",
                  parseSelectionInfo(posting[pos].value)))

HandledKeys ==
    {"deadlineTime", "majors", "qualifications", "internshipPeriod",
     "internshipDetails", "interviewInfo", "organizationSupportAmount", "status",
     "workingHours", "workingDays", "selectionInfo"}

CaseDefault ==
    /\ tpc = "loop"
    /\ pos <= Len(posting)
    /\ ~Skipped(posting[pos])
    /\ NewKey(posting[pos].key) \notin HandledKeys
    /\ Stored(Put(transformedData, NewKey(posting[pos].key),
                  cleanGenericValue(posting[pos].value)))

ReturnTransformedData ==
    /\ tpc = "loop"
    /\ pos > Len(posting)
    /\ tpc' = "returned"
    /\ UNCHANGED <<posting, pos, transformedData, thrown,
                   dateVars, majorVars, handlerVars, fieldVars, dynamoVars>>

\* the caller has the record or the error; the next posting can be given
TransformDataOver ==
    /\ tpc \in {"returned", "raised"}
    /\ tpc' = "idle"
    /\ posting' = << >>
    /\ pos' = 1
    /\ transformedData' = << >>
    /\ thrown' = ""
    /\ UNCHANGED <<dateVars, majorVars, handlerVars, fieldVars, dynamoVars>>

NextTransform ==
    \/ CallTransformData
    \/ SkipEntry
    \/ CaseDeadlineTime
    \/ CaseMajors
    \/ CaseQualifications
    \/ CaseInternshipPeriod
    \/ CaseInternshipDetails
    \/ CaseInterviewInfo
    \/ CaseOrganizationSupportAmount
    \/ CaseStatus
    \/ CaseWorkingHours
    \/ CaseWorkingDays
    \/ CaseSelectionInfo
    \/ CaseDefault
    \/ ReturnTransformedData
    \/ TransformDataOver

SpecTransform == Init /\ [][NextTransform]_vars

-----------------------------------------------------------------------------
(* transformData: properties *)

TransformReturned == tpc = "returned"

\* the posting has a field that is renamed to `key`
HasField(p, key) == \E n \in 1..Len(p) : NewKey(p[n].key) = key

FieldValue(p, key) == p[CHOOSE n \in 1..Len(p) : NewKey(p[n].key) = key].value

\* the primary major field is absent, is "" or "-", or resolves to no majors
PrimaryMajorEmpty(p) ==
    \/ ~HasField(p, "majors")
    \/ FieldValue(p, "majors") \in INVALID_VALUES
    \/ handleMajors(FieldValue(p, "majors")) = << >>

\* the tokens of the major section of the qualifications text
QualificationMajors(p) ==
    IF HasField(p, "qualifications") /\ FieldValue(p, "qualifications") \notin INVALID_VALUES
    THEN LET q == parseQualifications(FieldValue(p, "qualifications"))
         IN  IF Has(q, "major") THEN Get(q, "major") ELSE << >>
    ELSE << >>

\* C11: when the primary major field of a posting is empty and the major
\* section of its qualifications text resolves to some major, the record
\* transformData returns has as majors the non-empty result of the matcher on
\* the tokens of that section, whatever the order of the two fields.
C11_MajorsFromQualifications ==
    (/\ TransformReturned
     /\ PrimaryMajorEmpty(posting)
     /\ findRelatedMajor(QualificationMajors(posting)) # << >>) =>
       /\ Has(transformedData, "majors")
       /\ Get(transformedData, "majors") = findRelatedMajor(QualificationMajors(posting))

\* the keys the case of an entry stores
StoredKeys(e) ==
    CASE NewKey(e.key) = "internshipPeriod" -> {"startDate", "endDate"}
      [] NewKey(e.key) = "workingHours" -> {"workStartHour", "workEndHour"}
      [] OTHER -> {NewKey(e.key)}

KeysOf(obj) == {obj[n].key : n \in 1..Len(obj)}

\* C13: transformData on a posting of string values raises only at a
\* working-hours field that is malformed; a record is returned only when no
\* such field is there, and every field that is not skipped has then stored
\* its keys.
C13_OnlyWorkingHoursRaise ==
    /\ tpc = "raised" =>
          /\ pos <= Len(posting)
          /\ NewKey(posting[pos].key) = "workingHours"
          /\ MalformedHours(posting[pos].value)
    /\ TransformReturned =>
          \A n \in 1..Len(posting) :
             ~Skipped(posting[n]) =>
                /\ StoredKeys(posting[n]) \subseteq KeysOf(transformedData)
                /\ NewKey(posting[n].key) = "workingHours" =>
                      ~MalformedHours(posting[n].value)

\* a posting raised at its second field, the first one stored
C13_Witness ==
    /\ tpc = "raised"
    /\ pos = 2
    /\ transformedData # << >>
    /\ MalformedHours(posting[pos].value)

-----------------------------------------------------------------------------
(* saveToDynamoDB *)

RECURSIVE PowerOfTen(_)
PowerOfTen(e) == IF e <= 0 THEN 1 ELSE 10 * PowerOfTen(e - 1)

\* a number as a fraction whose denominator is the least power of ten
RECURSIVE Fraction(_, _)
Fraction(numerator, denominator) ==
    IF denominator > 1 /\ numerator % 10 = 0
    THEN Fraction(numerator \div 10, denominator \div 10)
    ELSE [isNaN |-> FALSE, num |-> numerator, den |-> denominator]

NotANumber == [isNaN |-> TRUE, num |-> 0, den |-> 1]

\* digits with an optional fraction from position a: the digits, the length
\* of the fraction and the position after it
Mantissa(t, a) ==
    LET n == DigitRun(t, a)
        dotted == a + n <= Len(t) /\ t[a + n] = "."
        f == IF dotted THEN DigitRun(t, a + n + 1) ELSE 0
    IN  [digits |-> SubSeq(t, a, a + n - 1) \o SubSeq(t, a + n + 1, a + n + f),
         fraction |-> f,
         next |-> IF dotted THEN a + n + 1 + f ELSE a + n]

\* an exponent from position c: E, a sign, digits
ExponentPart(t, c) ==
    LET signed == c + 1 <= Len(t) /\ t[c + 1] \in {"+", "-"}
        d == IF signed THEN c + 2 ELSE c + 1
        x == DigitRun(t, d)
        v == IF x = 0 THEN 0 ELSE DecimalValue(SubSeq(t, d, d + x - 1))
    IN  [ok |-> x > 0,
         value |-> IF signed /\ t[c + 1] = "-" THEN 0 - v ELSE v,
         next |-> d + x]

NoExponent(c) == [ok |-> TRUE, value |-> 0, next |-> c]

Scaled(magnitude, scale) ==
    IF scale >= 0
    THEN Fraction(magnitude * PowerOfTen(scale), 1)
    ELSE Fraction(magnitude, PowerOfTen(0 - scale))

\* the decimal literal without its sign, which has to end the string
Unsigned(t, a) ==
    LET m == Mantissa(t, a)
        e == IF m.next <= Len(t) /\ t[m.next] = "E"
             THEN ExponentPart(t, m.next)
             ELSE NoExponent(m.next)
    IN  IF m.digits = << >> \/ ~e.ok \/ e.next # Len(t) + 1 THEN NotANumber
        ELSE Scaled(DecimalValue(m.digits), e.value - m.fraction)

Negated(v) == [v EXCEPT !.num = 0 - v.num]

\* Number(s) of a string: white space is trimmed, the empty string is 0,
\* and what is left must be a whole decimal literal: a sign, digits with an
\* optional fraction, an optional exponent.  (Infinity and the 0x, 0o, 0b
\* literals need letters the ids of the model do not have.)
Number(s) ==
    LET t == Trim(s)
    IN  IF t = << >> THEN Fraction(0, 1)
        ELSE IF t[1] = "-" THEN Negated(Unsigned(t, 2))
        ELSE IF t[1] = "+" THEN Unsigned(t, 2)
        ELSE Unsigned(t, 1)

\* the identifier of an item: a string, or a number already
StringId(s) == [isString |-> TRUE, text |-> s, number |-> NaN]

NumberId(n) == [isString |-> FALSE, text |-> << >>, number |-> Num(n)]

\* `typeof item.id === "string"` and `!isNaN(Number(item.id))`
ValidId(item) == IF item.isString THEN ~Number(item.text).isNaN ELSE TRUE

\* item.id = parseInt(item.id, 10); an id that is no string is left alone
ConvertedId(item) == IF item.isString THEN parseInt(item.text) ELSE item.number

\* A call saves at most this many items.
MaxItems == 2

\* the identifiers of the items
Ids ==
    {StringId(<<"1", "2">>), StringId(<<" ", "1", "2", " ">>), StringId(<<"0">>),
     StringId(<<"-", "1">>), StringId(<<"+", "2">>), StringId(<<"1", "E", "2">>),
     StringId(<<"2", "0", "E", "-", "1">>), StringId(<<"1", ".", "5">>),
     StringId(<<"1", ".", "0">>), StringId(<<".", "5">>), StringId(<<"1", ".">>),
     StringId(<< >>), StringId(<<" ">>), StringId(<<"X">>), StringId(<<"1", "X">>),
     StringId(<<"1", " ", "2">>), StringId(<<"1", "2", "E">>), StringId(<<"-">>),
     StringId(<<".">>), NumberId(7)}

Batches == UNION {[1..n -> Ids] : n \in 0..MaxItems}

\* RECRUIT_TABLE is set: the loop over the items begins
CallSaveToDynamoDB ==
    /\ dpc = "idle"
    /\ \E b \in Batches : batch' = b
    /\ dpc' = "loop"
    /\ at' = 1
    /\ putItems' = << >>
    /\ dynamoError' = ""
    /\ UNCHANGED <<dateVars, majorVars, handlerVars, fieldVars, postingVars>>

\* RECRUIT_TABLE is not set
CallWithoutTable ==
    /\ dpc = "idle"
    /\ \E b \in Batches : batch' = b
    /\ dpc' = "rejected"
    /\ dynamoError' = "Environment variable RECRUIT_TABLE is not set."
    /\ at' = 1
    /\ putItems' = << >>
    /\ UNCHANGED <<dateVars, majorVars, handlerVars, fieldVars, postingVars>>

AtItem == dpc = "loop" /\ at <= Len(batch)

RejectInvalidId ==
    /\ AtItem
    /\ ~ValidId(batch[at])
    /\ dpc' = "rejected"
    /\ dynamoError' = "Invalid id value: "
    /\ UNCHANGED <<batch, at, putItems, dateVars, majorVars, handlerVars, fieldVars, postingVars>>

\* marshall(item) refuses the item; whether it does for an id that is NaN
\* is decided outside this code
MarshallFails ==
    /\ AtItem
    /\ ValidId(batch[at])
    /\ ConvertedId(batch[at]).isNaN
    /\ dpc' = "rejected"
    /\ dynamoError' = "marshall"
    /\ UNCHANGED <<batch, at, putItems, dateVars, majorVars, handlerVars, fieldVars, postingVars>>

\* dynamoClient.send(new PutItemCommand(params)) resolves
PutItem ==
    /\ AtItem
    /\ ValidId(batch[at])
    /\ putItems' = Append(putItems, ConvertedId(batch[at]))
    /\ at' = at + 1
    /\ UNCHANGED <<dpc, batch, dynamoError, dateVars, majorVars, handlerVars, fieldVars, postingVars>>

\* dynamoClient.send rejects and the error is thrown again
PutItemFails ==
    /\ AtItem
    /\ ValidId(batch[at])
    /\ putItems' = Append(putItems, ConvertedId(batch[at]))
    /\ dpc' = "rejected"
    /\ dynamoError' = "send"
    /\ UNCHANGED <<batch, at, dateVars, majorVars, handlerVars, fieldVars, postingVars>>

SaveResolves ==
    /\ dpc = "loop"
    /\ at > Len(batch)
    /\ dpc' = "resolved"
    /\ UNCHANGED <<batch, at, putItems, dynamoError,
                   dateVars, majorVars, handlerVars, fieldVars, postingVars>>

SaveOver ==
    /\ dpc \in {"resolved", "rejected"}
    /\ dpc' = "idle"
    /\ batch' = << >>
    /\ at' = 1
    /\ putItems' = << >>
    /\ dynamoError' = ""
    /\ UNCHANGED <<dateVars, majorVars, handlerVars, fieldVars, postingVars>>

NextDynamo ==
    \/ CallSaveToDynamoDB
    \/ CallWithoutTable
    \/ RejectInvalidId
    \/ MarshallFails
    \/ PutItem
    \/ PutItemFails
    \/ SaveResolves
    \/ SaveOver

SpecDynamo == Init /\ [][NextDynamo]_vars

-----------------------------------------------------------------------------
(* saveToDynamoDB: properties *)

\* the string denotes a number
DenotesNumber(s) ==
    LET t == Trim(s)
    IN  t # << >> /\ ~Number(t).isNaN

\* item n of the batch was given to dynamoClient.send
Sent(n) == n <= Len(putItems)

\* item n was met by the loop
Met(n) ==
    /\ dynamoError # "Environment variable RECRUIT_TABLE is not set."
    /\ n <= Len(batch)
    /\ \/ n < at
       \/ n = at /\ dpc = "rejected"

\* C14: an item whose id is a string that denotes no number makes
\* saveToDynamoDB throw "Invalid id value: ..." and is not sent; an item whose
\* id is a string and that is handled without an error is sent with the
\* integer the string denotes as its id.
C14_InvalidIdentifier ==
    \A n \in 1..Len(batch) :
       batch[n].isString =>
          /\ (Met(n) /\ ~DenotesNumber(batch[n].text)) =>
                /\ ~Sent(n)
                /\ n = at
                /\ dynamoError = "Invalid id value: "
          /\ (Sent(n) /\ ~(n = at /\ dpc = "rejected")) =>
                /\ Number(batch[n].text).den = 1
                /\ putItems[n] = Num(Number(batch[n].text).num)

-----------------------------------------------------------------------------
(* transformData: the fields that are discarded *)

\* the loop is at a field that is discarded
AtSkipped == tpc = "loop" /\ pos <= Len(posting) /\ Skipped(posting[pos])

\* no excluded key is a key of the record while it is built or returned
NoExcludedKey == KeysOf(transformedData) \cap EXCLUDE_KEYS = {}

\* C21: a field whose new key is an excluded key or whose value is "" or "-"
\* is discarded by transformData: the step over it leaves the record as it
\* is, and no excluded key is ever a key of the record.
C21_DiscardedFields ==
    /\ [](tpc \in {"loop", "returned", "raised"} => NoExcludedKey)
    /\ [][AtSkipped => (transformedData' = transformedData /\ tpc' = "loop"
                        /\ pos' = pos + 1)]_vars

\* a record is returned that holds the field stored before a discarded one
C21_Witness ==
    /\ TransformReturned
    /\ Len(posting) = 2
    /\ ~Skipped(posting[1])
    /\ Skipped(posting[2])
    /\ NewKey(posting[2].key) \in EXCLUDE_KEYS
    /\ transformedData # << >>

-----------------------------------------------------------------------------
(* The taxonomy is read only *)

\* C22: no step of the matcher, of the date normalizer, of a field parser or
\* of transformData writes to the three taxonomy tables: colleges,
\* relatedColleges and special hold what they held when they were loaded.
C22_TaxonomyUnchanged == tables = Taxonomy

\* a matcher call has returned majors it took from a special category, and
\* the tables are as they were
C22_Witness ==
    /\ mpc = "done"
    /\ \E n \in 1..Len(special), x \in 1..Len(flatInputs) :
          /\ SpecialMatches(n, flatInputs[x])
          /\ special[n].majors # << >>
          /\ \A y \in 1..Len(special[n].majors) :
                \E z \in 1..Len(result) : result[z] = special[n].majors[y]
    /\ tables = Taxonomy

-----------------------------------------------------------------------------
(* The matcher: the result as a union *)

\* the members of an array
AsSet(array) == {array[n] : n \in 1..Len(array)}

\* no token of the list is the sentinel
NoSentinelToken(tokens) == \A n \in 1..Len(tokens) : tokens[n] # sentinel

\* however the token list of the call is cut in two, the result is, as a set,
\* what the matcher returns for the first part together with what it returns
\* for the second
UnionOfParts ==
    \A n \in 0..Len(inputs) :
       AsSet(result) =
          AsSet(findRelatedMajor(SubSeq(inputs, 1, n)))
             \cup AsSet(findRelatedMajor(SubSeq(inputs, n + 1, Len(inputs))))

\* C23 as stated: when no token of the list is the sentinel, the result of
\* findRelatedMajor on a list A followed by B is, as a set, the union of its
\* results on A and on B.
C23_UnionOverTokens == (Done /\ NoSentinelToken(inputs)) => UnionOfParts

\* C23: when no atomic input of the call is the sentinel, the result of
\* findRelatedMajor on a list A followed by B is, as a set, the union of its
\* results on A and on B.
C23_UnionOverInputs == (Done /\ NoSentinel) => UnionOfParts

\* two tokens that resolve to different majors, both in the result
C23_Witness ==
    /\ Done
    /\ NoSentinel
    /\ Len(inputs) = 2
    /\ findRelatedMajor(<<inputs[1]>>) # << >>
    /\ findRelatedMajor(<<inputs[2]>>) # << >>
    /\ AsSet(findRelatedMajor(<<inputs[1]>>)) \cap AsSet(findRelatedMajor(<<inputs[2]>>)) = {}
    /\ AsSet(result) = AsSet(findRelatedMajor(<<inputs[1]>>))
                          \cup AsSet(findRelatedMajor(<<inputs[2]>>))

-----------------------------------------------------------------------------
(* The matcher: colleges, canonical majors and the special token *)

\* every major of the array is a member of the returned array
AllInResult(majors) == \A n \in 1..Len(majors) : InResult(majors[n])

\* C24: when a token of the call contains the name of a college (the token
\* is the name, for one) and no atomic input is the sentinel, every major
\* listed under that college is in the result of findRelatedMajor.
C24_CollegeResolved ==
    (Done /\ NoSentinel) =>
       \A i \in 1..Len(inputs), n \in 1..Len(colleges) :
          Includes(inputs[i], colleges[n].name) => AllInResult(colleges[n].majors)


\* C25: handleMajors on the full name of a major listed under a college
\* returns an array that holds that major.
C25_MajorRoundTrip ==
    (Done /\ selection \in CollegeMajors) => InResult(selection)


\* the majors of the colleges of the field group "SW"
SWMajors ==
    Flatten([n \in 1..Len(relatedColleges) |->
                IF relatedColleges[n].name = <<"S", "W">>
                THEN Flatten([c \in 1..Len(relatedColleges[n].colleges) |->
                                 MajorsOfCollege(relatedColleges[n].colleges[c])])
                ELSE << >>])

\* C26: handleMajors on a text in which "S/W" stands alone, and which has no
\* sentinel, returns an array that holds every major of the field group SW.
C26_SpecialTokenResolved ==
    (/\ Done
     /\ selection # << >>
     /\ extractedSpecials(selection, 1) # << >>
     /\ ~HasNoConstraint(selection)
     /\ NoSentinel) => AllInResult(SWMajors)

-----------------------------------------------------------------------------
(* transformData as a function of the posting *)

\* the switch on the new key of one entry: the record after it, or the error
CaseOf(obj, e) ==
    LET newKey == NewKey(e.key)
    IN  CASE newKey = "deadlineTime" ->
               Returns(Put(obj, newKey, normalizeDeadlineTime(e.value)))
          [] newKey = "majors" -> Returns(Put(obj, newKey, handleMajors(e.value)))
          [] newKey = "qualifications" -> Returns(handleQualifications(obj, e.value))
          [] newKey = "internshipPeriod" ->
               Returns(Assign(obj, parseInternshipPeriod(e.value)))
          [] newKey = "internshipDetails" ->
               Returns(Put(obj, newKey, parseInternshipDetails(e.value)))
          [] newKey = "interviewInfo" -> Returns(handleInterviewInfo(obj, e.value))
          [] newKey = "organizationSupportAmount" ->
               Returns(Put(obj, newKey, cleanCurrency(e.value)))
          [] newKey = "status" -> Returns(Put(obj, newKey, parseStatus(e.value)))
          [] newKey = "workingHours" -> handleWorkingHours(e.value, obj)
          [] newKey = "workingDays" -> Returns(Put(obj, newKey, parseWorkingDays(e.value)))
          [] newKey = "selectionInfo" ->
               Returns(Put(obj, newKey, parseSelectionInfo(e.value)))
          [] OTHER -> Returns(Put(obj, newKey, cleanGenericValue(e.value)))

\* the loop over the entries from entry n on
RECURSIVE TransformFrom(_, _, _)
TransformFrom(p, n, obj) ==
    IF n > Len(p) THEN Returns(obj)
    ELSE IF Skipped(p[n]) THEN TransformFrom(p, n + 1, obj)
    ELSE LET r == CaseOf(obj, p[n])
         IN  IF r.kind = "returned" THEN TransformFrom(p, n + 1, r.value) ELSE r

transformData(data) == TransformFrom(data, 1, EmptyObject)

-----------------------------------------------------------------------------
(* transformData: the order of the fields *)

\* the postings with the fields of p in another order
Reorderings(p) ==
    {[n \in 1..Len(p) |-> p[f[n]]] :
        f \in {g \in [1..Len(p) -> 1..Len(p)] :
                 \A a, b \in 1..Len(p) : a # b => g[a] # g[b]}}

\* two records have the same keys and the same values
SameRecord(a, b) ==
    /\ KeysOf(a) = KeysOf(b)
    /\ \A key \in KeysOf(a) : Get(a, key) = Get(b, key)

\* C27: the record transformData returns for a posting and the record it
\* returns for the same fields in any other order have the same keys and the
\* same values.
C27_OrderOfFields ==
    TransformReturned =>
       \A q \in Reorderings(posting) :
          /\ transformData(q).kind = "returned"
          /\ SameRecord(transformData(q).value, transformedData)

-----------------------------------------------------------------------------
(* handleWorkingHours: the record when it throws *)

\* the record the fields before the one the loop is at have built
BuiltBefore == transformData(SubSeq(posting, 1, pos - 1)).value

\* the start of the working hours the loop is at, converted
StartConverted == convertToISO8601(WorkingHoursStart(posting[pos].value))

\* C28 as stated: when handleWorkingHours throws, the record it was given is
\* as it was before the call, with neither workStartHour nor workEndHour
\* written.
C28_RecordUnchangedOnRaise ==
    tpc = "raised" => transformedData = BuiltBefore

\* C28: when handleWorkingHours throws on the start of the working hours, the
\* record it was given is as it was before the call; when the start is well
\* formed and it throws on the end, workStartHour has been written with the
\* converted start, and nothing else has been.
C28_StartWrittenOnRaise ==
    tpc = "raised" =>
       IF StartConverted.kind = "returned"
       THEN /\ transformedData = Put(BuiltBefore, "workStartHour", StartConverted.value)
            /\ "workEndHour" \notin KeysOf(transformedData)
       ELSE transformedData = BuiltBefore

\* the end is missing, the start was written before the error
C28_Witness ==
    /\ tpc = "raised"
    /\ WorkingHoursEnd(posting[pos].value) = undefined
    /\ KeysOf(transformedData) = {"workStartHour"}

-----------------------------------------------------------------------------
(* handler: the SQS event *)

\* An event has at most this many records.
MaxRecords == 2

\* postings of a crawled file
FirstPosting ==
    <<Field("id", <<"1">>),
      Field("mo-ji_b-jeo_n-go_ng", <<"ga_n", "ho", "ha_g", "gwa">>),
      Field("ja-gyeo_g-sa-ha_ng", <<"i_n", "wo_n", ":", " ", "2">>),
      Field("geu_n-mu-si-ga_n", <<"9", "si", " ", "5", "bu_n", "~", "1", "0", "si", "3", "0", "bu_n">>),
      Field("ma-ga_m-si-ga_n", <<"X">>),
      Field("si_l-seu_b-gi-ga_n", <<"2", "3", ".", "0", "3", ".", "0", "4">>)>>

SecondPosting ==
    <<Field("id", <<"2">>),
      Field("si_l-seu_b-nae-yo_ng", <<"*", "ji_g", "mu", "myeo_ng", ":", "X">>),
      Field("myeo_n-jeo_b-jeo_ng-bo", <<"myeo_n", "jeo_b", "yu", "hyeo_ng", ":", " ", "X">>),
      Field("gi-gwa_n-ji-wo_n-geu_m", <<"X">>),
      Field("si_l-seu_b-gi-gwa_n- -ji_n-hae_ng-sa_ng-tae", <<"jeo_b", "su", "ma", "ga_m">>),
      Field("geu_n-mu-yo-i_l", <<"wo_l", " ", "hwa">>),
      Field("seo_n-ba_l-jeo_ng-bo", <<"X">>),
      Field("so-jae-ji", << >>)>>

ShortPosting == <<Field("id", <<"4">>), Field("memo", <<" ", "X">>)>>

MalformedHoursPosting ==
    <<Field("id", <<"3">>), Field("geu_n-mu-si-ga_n", <<"9", "si", " ", "5", "bu_n">>)>>

InvalidIdPosting == <<Field("id", <<"X">>)>>

\* a file of the bucket: getS3File returns JSON.parse of its text, and the
\* handler parses that value again, which works when the text of the file is
\* a JSON string that holds the JSON of the postings (`encoded`) and throws a
\* SyntaxError when it is the JSON of the postings itself
File(encoded, postings) == [encoded |-> encoded, postings |-> postings]

Files ==
    {File(TRUE, << >>),
     File(TRUE, <<FirstPosting, SecondPosting>>),
     File(TRUE, <<ShortPosting>>),
     File(TRUE, <<ShortPosting, MalformedHoursPosting>>),
     File(TRUE, <<InvalidIdPosting, ShortPosting>>),
     File(TRUE, <<ShortPosting, InvalidIdPosting>>),
     File(FALSE, <<ShortPosting>>)}

Events == UNION {[1..n -> Files] : n \in 1..MaxRecords}

\* a write that was made: to "s3" (item 0), to "dynamo" or to "es"
Effect(op, n) == [op |-> op, record |-> recordAt, item |-> n]

\* the error reaches the catch of the handler, which throws it again
Rethrown(call) ==
    /\ hpc' = "rejected"
    /\ failure' = call
    /\ UNCHANGED <<event, recordAt, itemAt, processedData, effects>>

-----------------------------------------------------------------------------
(* handler: the steps *)

Invoke ==
    /\ hpc = "idle"
    /\ tpc = "idle"
    /\ \E e \in Events : event' = e
    /\ hpc' = "get"
    /\ recordAt' = 1
    /\ itemAt' = 1
    /\ processedData' = << >>
    /\ effects' = << >>
    /\ failure' = ""
    /\ UNCHANGED <<dateVars, majorVars, fieldVars, postingVars, dynamoVars>>

\* the loop over event.Records is at a record
AtRecord(stage) == hpc = stage /\ recordAt <= Len(event)

\* getS3File and JSON.parse(jsonData)
GetFile ==
    /\ AtRecord("get")
    /\ IF event[recordAt].encoded
       THEN hpc' = "transform" /\ UNCHANGED <<event, recordAt, itemAt, processedData, effects, failure>>
       ELSE Rethrown("JSON.parse")
    /\ UNCHANGED <<dateVars, majorVars, fieldVars, postingVars, dynamoVars>>

GetFileFails ==
    /\ AtRecord("get")
    /\ Rethrown("getS3File")
    /\ UNCHANGED <<dateVars, majorVars, fieldVars, postingVars, dynamoVars>>

\* crawledData.map(transformData) calls transformData with the next posting
MapCall ==
    /\ AtRecord("transform")
    /\ tpc = "idle"
    /\ itemAt <= Len(event[recordAt].postings)
    /\ posting' = event[recordAt].postings[itemAt]
    /\ tpc' = "loop"
    /\ pos' = 1
    /\ transformedData' = EmptyObject
    /\ thrown' = ""
    /\ UNCHANGED <<dateVars, majorVars, fieldVars, dynamoVars, handlerVars>>

\* transformData returned the record of the posting, which is saved at once
MapReturnSaving ==
    /\ AtRecord("transform")
    /\ tpc = "returned"
    /\ processedData' = Append(processedData, transformedData)
    /\ effects' = Append(effects, Effect("dynamo", itemAt))
    /\ itemAt' = itemAt + 1
    /\ tpc' = "idle"
    /\ posting' = << >>
    /\ pos' = 1
    /\ transformedData' = << >>
    /\ UNCHANGED <<hpc, event, recordAt, failure, thrown,
                   dateVars, majorVars, fieldVars, dynamoVars>>

\* transformData returned the record of the posting
MapReturn ==
    /\ AtRecord("transform")
    /\ tpc = "returned"
    /\ processedData' = Append(processedData, transformedData)
    /\ itemAt' = itemAt + 1
    /\ tpc' = "idle"
    /\ posting' = << >>
    /\ pos' = 1
    /\ transformedData' = << >>
    /\ UNCHANGED <<hpc, event, recordAt, effects, failure, thrown,
                   dateVars, majorVars, fieldVars, dynamoVars>>

\* transformData threw
MapRaise ==
    /\ AtRecord("transform")
    /\ tpc = "raised"
    /\ Rethrown("transformData")
    /\ tpc' = "idle"
    /\ posting' = << >>
    /\ pos' = 1
    /\ transformedData' = << >>
    /\ UNCHANGED <<thrown, dateVars, majorVars, fieldVars, dynamoVars>>

\* every posting of the file is transformed
MapOver ==
    /\ AtRecord("transform")
    /\ tpc = "idle"
    /\ itemAt > Len(event[recordAt].postings)
    /\ hpc' = "s3"
    /\ UNCHANGED <<event, recordAt, itemAt, processedData, effects, failure,
                   dateVars, majorVars, fieldVars, postingVars, dynamoVars>>

\* saveToS3(bucketName, processedKey, transformedData)
SaveToS3 ==
    /\ AtRecord("s3")
    /\ effects' = Append(effects, Effect("s3", 0))
    /\ hpc' = "dynamo"
    /\ itemAt' = 1
    /\ UNCHANGED <<event, recordAt, processedData, failure,
                   dateVars, majorVars, fieldVars, postingVars, dynamoVars>>

SaveToS3Fails ==
    /\ AtRecord("s3")
    /\ Rethrown("saveToS3")
    /\ UNCHANGED <<dateVars, majorVars, fieldVars, postingVars, dynamoVars>>

\* the id of an item of the file, as saveToDynamoDB finds it
ItemId(data) ==
    IF Has(data, "id") THEN StringId(Get(data, "id"))
    ELSE [isString |-> FALSE, text |-> << >>, number |-> NaN]

AtItemOf(stage) == AtRecord(stage) /\ itemAt <= Len(processedData)

\* item.id = parseInt(item.id, 10)
WithConvertedId ==
    IF Has(processedData[itemAt], "id")
    THEN [processedData EXCEPT
            ![itemAt] = Put(@, "id", ConvertedId(ItemId(processedData[itemAt])))]
    ELSE processedData

\* saveToDynamoDB: RECRUIT_TABLE is not set
DynamoWithoutTable ==
    /\ AtRecord("dynamo")
    /\ itemAt = 1
    /\ Rethrown("saveToDynamoDB")
    /\ UNCHANGED <<dateVars, majorVars, fieldVars, postingVars, dynamoVars>>

DynamoInvalidId ==
    /\ AtItemOf("dynamo")
    /\ ~ValidId(ItemId(processedData[itemAt]))
    /\ Rethrown("saveToDynamoDB")
    /\ UNCHANGED <<dateVars, majorVars, fieldVars, postingVars, dynamoVars>>

\* marshall or dynamoClient.send throws
DynamoPutFails ==
    /\ AtItemOf("dynamo")
    /\ ValidId(ItemId(processedData[itemAt]))
    /\ processedData' = WithConvertedId
    /\ hpc' = "rejected"
    /\ failure' = "saveToDynamoDB"
    /\ UNCHANGED <<event, recordAt, itemAt, effects,
                   dateVars, majorVars, fieldVars, postingVars, dynamoVars>>

\* the items are indexed before they are put in the table
DynamoPutAfterIndex ==
    /\ AtItemOf("dynamo")
    /\ ValidId(ItemId(processedData[itemAt]))
    /\ processedData' = WithConvertedId
    /\ effects' = effects \o <<Effect("es", itemAt), Effect("dynamo", itemAt)>>
    /\ itemAt' = itemAt + 1
    /\ UNCHANGED <<hpc, event, recordAt, failure,
                   dateVars, majorVars, fieldVars, postingVars, dynamoVars>>

DynamoPut ==
    /\ AtItemOf("dynamo")
    /\ ValidId(ItemId(processedData[itemAt]))
    /\ processedData' = WithConvertedId
    /\ effects' = Append(effects, Effect("dynamo", itemAt))
    /\ itemAt' = itemAt + 1
    /\ UNCHANGED <<hpc, event, recordAt, failure,
                   dateVars, majorVars, fieldVars, postingVars, dynamoVars>>

\* saveToDynamoDB is over; saveToElasticsearch begins
DynamoSaved ==
    /\ AtRecord("dynamo")
    /\ itemAt > Len(processedData)
    /\ hpc' = "es"
    /\ itemAt' = 1
    /\ UNCHANGED <<event, recordAt, processedData, effects, failure,
                   dateVars, majorVars, fieldVars, postingVars, dynamoVars>>

\* saveToElasticsearch: esClient.index of each item
EsIndex ==
    /\ AtItemOf("es")
    /\ effects' = Append(effects, Effect("es", itemAt))
    /\ itemAt' = itemAt + 1
    /\ UNCHANGED <<hpc, event, recordAt, processedData, failure,
                   dateVars, majorVars, fieldVars, postingVars, dynamoVars>>

EsIndexFails ==
    /\ AtItemOf("es")
    /\ Rethrown("saveToElasticsearch")
    /\ UNCHANGED <<dateVars, majorVars, fieldVars, postingVars, dynamoVars>>

\* the next record of the event
NextRecord ==
    /\ AtRecord("es")
    /\ itemAt > Len(processedData)
    /\ recordAt' = recordAt + 1
    /\ hpc' = "get"
    /\ itemAt' = 1
    /\ processedData' = << >>
    /\ UNCHANGED <<event, effects, failure,
                   dateVars, majorVars, fieldVars, postingVars, dynamoVars>>

HandlerResolves ==
    /\ hpc = "get"
    /\ recordAt > Len(event)
    /\ hpc' = "resolved"
    /\ UNCHANGED <<event, recordAt, itemAt, processedData, effects, failure,
                   dateVars, majorVars, fieldVars, postingVars, dynamoVars>>

\* the invocation is over; the next event can come
HandlerOver ==
    /\ hpc \in {"resolved", "rejected"}
    /\ hpc' = "idle"
    /\ event' = << >>
    /\ recordAt' = 1
    /\ itemAt' = 1
    /\ processedData' = << >>
    /\ effects' = << >>
    /\ failure' = ""
    /\ UNCHANGED <<dateVars, majorVars, fieldVars, postingVars, dynamoVars>>

\* the steps of transformData, between its call and its return
TransformDataSteps ==
    \/ SkipEntry
    \/ CaseDeadlineTime
    \/ CaseMajors
    \/ CaseQualifications
    \/ CaseInternshipPeriod
    \/ CaseInternshipDetails
    \/ CaseInterviewInfo
    \/ CaseOrganizationSupportAmount
    \/ CaseStatus
    \/ CaseWorkingHours
    \/ CaseWorkingDays
    \/ CaseSelectionInfo
    \/ CaseDefault
    \/ ReturnTransformedData

NextHandler ==
    \/ Invoke
    \/ GetFile
    \/ GetFileFails
    \/ MapCall
    \/ TransformDataSteps
    \/ MapReturn
    \/ MapRaise
    \/ MapOver
    \/ SaveToS3
    \/ SaveToS3Fails
    \/ DynamoWithoutTable
    \/ DynamoInvalidId
    \/ DynamoPutFails
    \/ DynamoPut
    \/ DynamoSaved
    \/ EsIndex
    \/ EsIndexFails
    \/ NextRecord
    \/ HandlerResolves
    \/ HandlerOver

SpecHandler == Init /\ [][NextHandler]_vars

-----------------------------------------------------------------------------
(* handler: the order of the writes *)

\* the effects of the record r that were made before the n-th effect
Before(n, op, r, m) ==
    \E j \in 1..(n - 1) : effects[j] = [op |-> op, record |-> r, item |-> m]

\* the file of an effect went to S3 before any item of it went to DynamoDB
S3BeforeDynamo ==
    \A n \in 1..Len(effects) :
        effects[n].op = "dynamo" => Before(n, "s3", effects[n].record, 0)

\* an item is indexed after every item of its file was put in the table
DynamoBeforeEs ==
    \A n \in 1..Len(effects) :
        effects[n].op = "es" =>
            \A m \in 1..Len(event[effects[n].record].postings) :
                Before(n, "dynamo", effects[n].record, m)

\* after an error of saveToDynamoDB nothing of the file is indexed and no
\* later record has an effect
NothingAfterDynamoError ==
    failure = "saveToDynamoDB" =>
        /\ hpc = "rejected"
        /\ \A n \in 1..Len(effects) :
              /\ effects[n].record <= recordAt
              /\ ~(effects[n].op = "es" /\ effects[n].record = recordAt)

\* a rejected invocation does nothing more
RejectedIsOver ==
    hpc = "rejected" => (hpc' = "idle" /\ effects' = << >>)

\* C29: for each record the processed file goes to S3 before any of its items
\* goes to DynamoDB, and an item is indexed in Elasticsearch only after every
\* item of the file was written to DynamoDB without error; when a DynamoDB
\* write fails, no item of the file is indexed, the error is thrown again and
\* the later records of the event are not processed.
C29_OrderOfWrites ==
    /\ [](S3BeforeDynamo /\ DynamoBeforeEs /\ NothingAfterDynamoError)
    /\ [][RejectedIsOver]_vars

\* the second item of the first of two records failed in DynamoDB, after the
\* first item was written
C29_Witness ==
    /\ failure = "saveToDynamoDB"
    /\ Len(event) = 2
    /\ recordAt = 1
    /\ itemAt = 2
    /\ effects = <<[op |-> "s3", record |-> 1, item |-> 0],
                   [op |-> "dynamo", record |-> 1, item |-> 1]>>

\* C30: when transformData throws for a posting of a file, nothing of that
\* file is written to S3, DynamoDB or Elasticsearch, the postings that were
\* transformed before included, and the error is thrown again.
C30_AllOrNothing ==
    /\ (hpc = "transform" \/ failure = "transformData") =>
          \A n \in 1..Len(effects) : effects[n].record # recordAt
    /\ failure = "transformData" => hpc = "rejected"

\* the second posting of the second file has malformed working hours, after
\* the first posting was transformed and the first file was saved
C30_Witness ==
    /\ failure = "transformData"
    /\ hpc = "rejected"
    /\ recordAt = 2
    /\ Len(processedData) = 1
    /\ Len(effects) > 0

====
